---------------------------- MODULE Spec2Model ----------------------------
(***************************************************************************)
(* The p3 storage engine of the key/value server: the sharded concurrent   *)
(* hash table (src/p3/common/hashtable.h) and the Storage facade with its  *)
(* append-only log and snapshot (src/p3/server/server_storage.cc).         *)
(*                                                                         *)
(* A bucket is a sequence of pairs [first, second]; positions are 1-based  *)
(* here and 0-based in the code, 0 standing for "not found".  One action   *)
(* is one critical section of the code (the span in which a bucket lock is *)
(* held), with the authentication that precedes it.                        *)
(***************************************************************************)
EXTENDS Integers, Sequences, FiniteSets, TLC

\* ------------------------------------------------------------- bounds
NumBuckets == 2
\* Requests the clients send in a run of each specification.
MaxOps == 3
MaxAuthOps == 4
MaxKVOps == 4
MaxSavOps == 3
MaxSeqOps == 4
MaxTableOps == 3
MaxT5Ops == 3
MaxInsOps == 1
MaxAmnt == 3
MaxRecvs == 4
MaxRestarts == 1
\* mru_manager: the capacity given at construction and the calls of a run.
MruCapacity == 2
MaxMruOps == 4
\* quota_tracker: the amount and duration given at construction, the width
\* of size_t (scaled down), the seconds and the calls of a run.
QuotaMax == 2
QuotaDur == 2
SizeBits == 3
MaxTime == 5
MaxQuotaOps == 4
MaxP1Ops == 4
MaxConns == 3
MaxFileLen == 3
MaxServed == 2
StatusBits == 8

Workers == {1, 2}
Users == {"alice", "bob"}
Passwords == {"pw", "pw2"}
Keys == {"k1", "k2"}
Values == {"v1", "v2"}
Contents == {"", "hello"}
MruKeys == {"k1", "k2", "k3"}
Amounts == 1 .. QuotaMax
SizeT == 0 .. (2 ^ SizeBits - 1)

Buckets == 0 .. (NumBuckets - 1)

\* std::hash<string>: the two keys collide when there are two buckets.
HashOf(key) ==
  CASE key = "k1" -> 0
    [] key = "k2" -> 2
    [] key = "alice" -> 1
    [] key = "bob" -> 3
    [] key = "k3" -> 1
    [] OTHER -> 0

Index(key) == HashOf(key) % NumBuckets

\* ------------------------------------------------------------- digests
\* MD5_DIGEST_LENGTH bytes, shortened; a byte 0 is the NUL that ends a C string.
Digests == {<<1, 2>>, <<2, 1>>, <<1, 0>>}
\* What follows md5_digest on the stack when no digest byte is NUL.
Garbage == {<<>>, <<3>>}

RECURSIVE UpToNul(_)
UpToNul(d) ==
  IF d = <<>> \/ Head(d) = 0 THEN <<>> ELSE <<Head(d)>> \o UpToNul(Tail(d))

\* string = const char*: the bytes up to the first NUL, reading past the
\* digest when it holds none.
CStrings(d) ==
  IF \E i \in 1 .. Len(d) : d[i] = 0
  THEN {UpToNul(d)}
  ELSE {d \o g : g \in Garbage}

\* ------------------------------------------------------------- state
VARIABLES
  auth_table,   \* bucket -> sequence of [first: user, second: AuthTableEntry]
  kv_store,     \* bucket -> sequence of [first: key, second: value]
  kv_rdlocked,  \* bucket -> a shared lock on it was never released
  file,         \* the records of <filename>, or NoFile
  tmpfile,      \* the records of <filename>.tmp, or NoFile
  f_ptr,        \* "uninit", "w", "a+", "r" or "closed"
  running,      \* load() has returned true and the workers serve requests
  crashed,      \* the process has been killed by undefined behaviour
  pc,           \* worker -> where it is in its operation
  loc,          \* worker -> the operation's arguments and locals
  last,         \* the operation that returned last, with its result
  regpass,      \* user -> the password of the add_user that registered it
  kv_hist,      \* the mutations of the store by this process, in order
  raced,        \* key -> two operations on the key have overlapped
  nops,         \* operations started so far
  limit,        \* operations the clients request in this run
  nrestarts     \* restarts so far

\* The mru_manager (src/p4/common/mru.cc)
VARIABLES
  mru,          \* the deque: least recent first, most recent last
  mru_loc,      \* worker -> the element its insert() has yet to push, or ""
  mru_last,     \* the get() that returned last, with its result
  mru_hist,     \* the calls that have completed, in order
  mru_nops,     \* calls started so far
  mru_crashed   \* the process has been killed by undefined behaviour

\* The quota_tracker (src/p4/common/quota_tracker.cc)
VARIABLES
  q_built,      \* the tracker has been constructed
  q_events,     \* the deque of events [when, amnt]
  q_amt,        \* the field q_amt
  q_first,      \* the value q_amt had when the tracker was constructed
  q_now,        \* the wall clock, in seconds
  q_last,       \* the check() that returned last, with its result
  q_added,      \* every add() so far as [when, amnt], never pruned
  q_paired,     \* every add() so far followed a check() that returned true
  q_rejected,   \* some check() has returned false
  q_nops        \* calls started so far

\* The server of p1 (src/p1/server, src/p1/common/net.cc)
VARIABLES
  p1_auth_table,  \* the unordered_map: user -> AuthTableEntry
  p1_last,        \* the Storage call that returned last, with its result
  p1_nops,        \* Storage calls made so far by a caller of the class
  p1_pc,          \* main is at: "accept", "serve", "close", "returned",
                  \* "terminated"; "crashed" when an exception killed it
  p1_conn,        \* the connection accepted last: request, messages sent, done
  p1_bye,         \* a BYE of a registered user with its password has been served
  p1_nconn,       \* connections accepted so far
  p1_file,        \* the entries of <filename>, or NoFile
  p1_tmpfile      \* the entries of <filename>.tmp, or NoFile

\* main of the server (src/p5/server/server.cc)
VARIABLES
  main_pc,        \* where main is
  main_env,       \* the arguments and the environment the process was started in
  main_status,    \* the exit status of the process, "none" while it runs
  main_served     \* connections served so far

\* The table of p5 (src/p5/common/hashtable.h)
VARIABLES
  t5_pairs,       \* bucket -> the vector of pairs [first, second]
  t5_lock,        \* bucket -> the thread that holds its mutex, 0 when free
  t5_pc,          \* thread -> "idle", "wait", "held", "locking", "locked",
                  \* "unlocking"
  t5_loc,         \* thread -> the call's arguments and locals
  t5_last,        \* the call that returned last, with its result
  t5_nops         \* calls started so far

\* reliable_get_to_eof_or_n (src/p1/common/net.cc)
VARIABLES
  rg_pc,          \* "idle", "loop" or "returned"
  rg_remain,      \* the local remain
  rg_total,       \* the local total
  rg_errno,       \* errno of the calling thread
  rg_ret,         \* the value returned
  rg_closed,      \* a recv of this call has returned 0: the peer has closed
  rg_nrecv        \* recv calls made so far

storageVars == <<auth_table, kv_store, kv_rdlocked, file, tmpfile, f_ptr,
                 running, crashed, pc, loc, last, regpass, kv_hist, raced,
                 nops, limit, nrestarts>>
p1Vars == <<p1_auth_table, p1_last, p1_nops, p1_pc, p1_conn, p1_bye, p1_nconn,
            p1_file, p1_tmpfile>>
mainVars == <<main_pc, main_env, main_status, main_served>>
t5Vars == <<t5_pairs, t5_lock, t5_pc, t5_loc, t5_last, t5_nops>>
rgVars == <<rg_pc, rg_remain, rg_total, rg_errno, rg_ret, rg_closed, rg_nrecv>>
mruVars == <<mru, mru_loc, mru_last, mru_hist, mru_nops, mru_crashed>>

\* What the Storage of p3 does not touch.
quotaVars == <<q_built, q_events, q_amt, q_first, q_now, q_last, q_added, q_paired,
               q_rejected, q_nops>>
others == <<mruVars, quotaVars, p1Vars, mainVars, t5Vars, rgVars>>

vars == <<storageVars, others>>

NoCheck == [op |-> "", amount |-> 0, ret |-> FALSE, winsum |-> 0,
            rejected |-> FALSE, first |-> 0]

\* Before the tracker is constructed.
NoCall == [op |-> "", user |-> "", pass |-> "", arg |-> "", ret |-> "",
           before |-> [u \in {} |-> ""]]

NoRequest == [kind |-> "", cmd |-> "", key |-> "", rsa_ok |-> FALSE,
              aes_ok |-> FALSE, user |-> "", pass |-> "", arg |-> ""]

NoConn == [req |-> NoRequest, received |-> FALSE, sent |-> <<>>,
           done |-> FALSE]

\* What stands for a file of p1 that does not exist.
P1NoFile == <<[username |-> "ENOENT", pass_hash |-> "", content |-> ""]>>

\* main has constructed the Storage, load() has found no data file, and
\* accept_client is about to call accept().
P1Init ==
  /\ p1_auth_table = [u \in {} |-> ""]
  /\ p1_last = NoCall
  /\ p1_nops = 0
  /\ p1_pc = "accept"
  /\ p1_conn = NoConn
  /\ p1_bye = FALSE
  /\ p1_nconn = 0
  /\ p1_file = P1NoFile
  /\ p1_tmpfile = P1NoFile

NoEnv == [usage |-> FALSE, pub_exists |-> FALSE, pri_exists |-> FALSE,
          pri_loads |-> FALSE, pub_size |-> FALSE, load |-> FALSE,
          port_free |-> FALSE]

\* The process has not been started.
MainInit ==
  /\ main_pc = "none"
  /\ main_env = NoEnv
  /\ main_status = "none"
  /\ main_served = 0

NoT5Loc == [op |-> "", key |-> "", val |-> "", n |-> 0, ret |-> "", cb |-> <<>>]
NoT5Last == [op |-> "", key |-> "", val |-> "", ret |-> "", cb |-> <<>>,
             held |-> FALSE]

\* The table as its constructor leaves it, no thread in a call.
T5Init ==
  /\ t5_pairs = [b \in 0 .. (NumBuckets - 1) |-> <<>>]
  /\ t5_lock = [b \in 0 .. (NumBuckets - 1) |-> 0]
  /\ t5_pc = [t \in Workers |-> "idle"]
  /\ t5_loc = [t \in Workers |-> NoT5Loc]
  /\ t5_last = NoT5Last
  /\ t5_nops = 0

\* No call of reliable_get_to_eof_or_n has been made.
RgInit ==
  /\ rg_pc = "idle"
  /\ rg_remain = 0
  /\ rg_total = 0
  /\ rg_errno = "0"
  /\ rg_ret = 0
  /\ rg_closed = FALSE
  /\ rg_nrecv = 0

QuotaInit ==
  /\ q_built = FALSE
  /\ q_events = <<>>
  /\ q_amt = 0
  /\ q_first = 0
  /\ q_now = 0
  /\ q_last = NoCheck
  /\ q_added = <<>>
  /\ q_paired = TRUE
  /\ q_rejected = FALSE
  /\ q_nops = 0

NoGet == [op |-> "", rv |-> <<>>, hist |-> <<>>, quiet |-> TRUE]

\* mru_manager::mru_manager
MruInit ==
  /\ mru = <<>>
  /\ mru_loc = [w \in Workers |-> ""]
  /\ mru_last = NoGet
  /\ mru_hist = <<>>
  /\ mru_nops = 0
  /\ mru_crashed = FALSE

\* A file that does not exist (fopen fails with ENOENT).
NoFile == <<[magic |-> "ENOENT", name |-> "", hash |-> <<>>, data |-> ""]>>

NoLoc == [op |-> "", user |-> "", key |-> "", val |-> "", exists |-> FALSE,
          i |-> 0, data |-> <<>>, snap |-> <<>>]
NoLast == [op |-> "", user |-> "", pass |-> "", key |-> "", val |-> "",
           hash |-> <<>>, ret |-> ""]

EmptyTable == [b \in Buckets |-> <<>>]

\* ------------------------------------------------------------- the table
RECURSIVE FindFrom(_, _, _)
FindFrom(elements, key, i) ==
  IF i > Len(elements) THEN 0
  ELSE IF elements[i].first = key THEN i
  ELSE FindFrom(elements, key, i + 1)

\* The scan of a bucket: the position of the first pair of key, 0 if none.
Find(elements, key) == FindFrom(elements, key, 1)

RemoveAt(elements, i) ==
  [j \in 1 .. (Len(elements) - 1) |->
     IF j < i THEN elements[j] ELSE elements[j + 1]]

\* do_with_readonly: what a reader sees for key, "" when it is absent.
Contains(table, key) == Find(table[Index(key)], key) # 0
Lookup(table, key) ==
  LET e == table[Index(key)]
  IN  IF Find(e, key) = 0 THEN "" ELSE e[Find(e, key)].second

\* An insert that appends without looking for the key.
InsertTableAlways(table, key, val) ==
  [table EXCEPT ![Index(key)] = Append(@, [first |-> key, second |-> val])]

\* insert: under the exclusive lock, the pair is appended unless key is mapped.
InsertTable(table, key, val) ==
  IF Contains(table, key) THEN table
  ELSE [table EXCEPT ![Index(key)] = Append(@, [first |-> key, second |-> val])]

\* upsert, second half: under the exclusive lock, with exists and i as the
\* scan under the shared lock left them.  The set of outcomes
\* [table, crashed]: a position past the end of the vector is an access out
\* of bounds, which writes into a dead slot or kills the process.
UpsertOutcomes(table, key, val, exists, i) ==
  LET b == Index(key)
      e == table[b]
  IN  IF ~exists
      THEN {[table |-> [table EXCEPT ![b] = Append(e, [first |-> key, second |-> val])],
             crashed |-> FALSE]}
      ELSE IF i <= Len(e)
      THEN {[table |-> [table EXCEPT ![b][i].second = val], crashed |-> FALSE]}
      ELSE {[table |-> table, crashed |-> FALSE],
            [table |-> table, crashed |-> TRUE]}

\* remove, second half: erase(begin() + i) under the exclusive lock, with i
\* as the scan under the shared lock left it.  Past the end, vector::erase
\* destroys the last pair or kills the process.
RemoveOutcomes(table, key, i) ==
  LET b == Index(key)
      e == table[b]
  IN  IF i <= Len(e)
      THEN {[table |-> [table EXCEPT ![b] = RemoveAt(e, i)], crashed |-> FALSE]}
      ELSE {[table |-> table, crashed |-> TRUE]} \cup
           (IF Len(e) = 0 THEN {}
            ELSE {[table |-> [table EXCEPT ![b] = SubSeq(e, 1, Len(e) - 1)],
                   crashed |-> FALSE]})

\* A scan that takes the first pair of the bucket for the key's.
RemoveScanFirst(table, key) == 1

\* remove, first half: the scan under the shared lock, 0 when key is not
\* mapped.
RemoveScan(table, key) == Find(table[Index(key)], key)

SetContentOfAll(table, user, content) ==
  [b \in Buckets |->
     [i \in 1 .. Len(table[b]) |->
        [table[b][i] EXCEPT !.second.content = content]]]

\* do_with: f applied to the value of key, if key is mapped.
SetContent(table, user, content) ==
  LET b == Index(user)
      i == Find(table[b], user)
  IN  IF i = 0 THEN table
      ELSE [table EXCEPT ![b][i].second.content = content]

RECURSIVE Flatten(_, _)
\* do_all_readonly: the pairs of every bucket, in bucket order.
Flatten(table, b) ==
  IF b >= NumBuckets THEN <<>> ELSE table[b] \o Flatten(table, b + 1)

\* ------------------------------------------------------------- the log
KVENTRY == "KVKVKVKV"
AUTHENTRY == "AUTHAUTH"
AUTHDIFF == "AUTHDIFF"
KVUPDATE == "KVUPDATE"
KVDELETE == "KVDELETE"

Rec(magic, name, hash, data) ==
  [magic |-> magic, name |-> name, hash |-> hash, data |-> data]

\* fwrite + fflush of one record through f_ptr: the set of outcomes
\* [file, crashed].  A stream opened "r" refuses the write; a closed stream
\* is a dangling FILE*, whose write is lost or kills the process.
WriteOutcomes(rec) ==
  CASE f_ptr \in {"w", "a+"} -> {[file |-> Append(file, rec), crashed |-> FALSE]}
    [] f_ptr = "r" -> {[file |-> file, crashed |-> FALSE]}
    [] OTHER -> {[file |-> file, crashed |-> FALSE],
                 [file |-> file, crashed |-> TRUE]}

\* ------------------------------------------------------------- load
\* The tables after one record of the file, as load() applies it with the
\* table's own operations.  A KVDELETE of an unmapped key leaves the
\* bucket's shared lock held, and the next record that needs that bucket's
\* exclusive lock never gets it: load() hangs.  At a magic that is none of
\* the five, load() returns false and the rest of the file is not read.
ApplyRecord(s, r) ==
  IF s.hung \/ s.bad THEN s
  ELSE CASE r.magic = AUTHENTRY ->
              [s EXCEPT !.auth = InsertTable(s.auth, r.name,
                  [username |-> r.name, pass_hash |-> r.hash, content |-> r.data])]
         [] r.magic = AUTHDIFF ->
              [s EXCEPT !.auth = SetContent(s.auth, r.name, r.data)]
         [] r.magic = KVENTRY ->
              IF s.rd[Index(r.name)] THEN [s EXCEPT !.hung = TRUE]
              ELSE [s EXCEPT !.kv = InsertTable(s.kv, r.name, r.data)]
         [] r.magic = KVUPDATE ->
              IF s.rd[Index(r.name)] THEN [s EXCEPT !.hung = TRUE]
              ELSE [s EXCEPT !.kv =
                      (CHOOSE o \in UpsertOutcomes(s.kv, r.name, r.data,
                                     Contains(s.kv, r.name),
                                     Find(s.kv[Index(r.name)], r.name)) : TRUE).table]
         [] r.magic = KVDELETE ->
              IF ~Contains(s.kv, r.name)
              THEN [s EXCEPT !.rd[Index(r.name)] = TRUE]
              ELSE IF s.rd[Index(r.name)] THEN [s EXCEPT !.hung = TRUE]
              ELSE [s EXCEPT !.kv =
                      (CHOOSE o \in RemoveOutcomes(s.kv, r.name,
                                     Find(s.kv[Index(r.name)], r.name)) : TRUE).table]
         [] OTHER -> [s EXCEPT !.bad = TRUE]

RECURSIVE Replay(_, _)
Replay(s, records) ==
  IF records = <<>> THEN s
  ELSE Replay(ApplyRecord(s, Head(records)), Tail(records))

\* What load() leaves in memory for a data file holding these records.
Loaded(records) ==
  Replay([auth |-> EmptyTable, kv |-> EmptyTable,
          rd |-> [b \in Buckets |-> FALSE], hung |-> FALSE, bad |-> FALSE],
         records)

\* ------------------------------------------------------------- auth
\* auth(): the user's row is found and the stored pass_hash compares
\* unequal to the C string of the digest just computed.
Authenticated(stored, computed) == stored # computed

\* The digest is MD5 over the bytes of the std::string object, not of the
\* password: it varies with where that object lies, so each call draws one.
HashesOf(pass) == UNION {CStrings(d) : d \in Digests}

AuthOutcomes(user) ==
  IF ~Contains(auth_table, user) THEN {FALSE}
  ELSE {Authenticated(Lookup(auth_table, user).pass_hash, h) : h \in HashesOf("")}

\* main has constructed the Storage and the data file does not exist.
FreshOn(f, n) ==
  /\ auth_table = EmptyTable
  /\ kv_store = EmptyTable
  /\ kv_rdlocked = [b \in Buckets |-> FALSE]
  /\ file = f
  /\ tmpfile = NoFile
  /\ f_ptr = "uninit"
  /\ running = FALSE
  /\ crashed = FALSE
  /\ pc = [w \in Workers |-> "idle"]
  /\ loc = [w \in Workers |-> NoLoc]
  /\ last = NoLast
  /\ regpass = [u \in Users |-> ""]
  /\ kv_hist = <<>>
  /\ raced = [k \in Keys |-> FALSE]
  /\ nops = 0
  /\ limit = n
  /\ nrestarts = 0
  /\ MruInit
  /\ QuotaInit
  /\ P1Init
  /\ MainInit
  /\ T5Init
  /\ RgInit

Fresh(n) == FreshOn(NoFile, n)

\* main has loaded the data file an earlier run left: alice registered and
\* k1 inserted.
Preloaded(n) ==
  /\ \E d \in Digests :
       file = <<Rec(AUTHENTRY, "alice", d, ""), Rec(KVENTRY, "k1", <<>>, "v1")>>
  /\ auth_table = Loaded(file).auth
  /\ kv_store = Loaded(file).kv
  /\ kv_rdlocked = Loaded(file).rd
  /\ tmpfile = NoFile
  /\ f_ptr = "a+"
  /\ running = TRUE
  /\ crashed = FALSE
  /\ pc = [w \in Workers |-> "idle"]
  /\ loc = [w \in Workers |-> NoLoc]
  /\ last = NoLast
  /\ regpass = [u \in Users |-> IF u = "alice" THEN "pw" ELSE ""]
  /\ kv_hist = <<>>
  /\ raced = [k \in Keys |-> FALSE]
  /\ nops = 0
  /\ limit = n
  /\ nrestarts = 0
  /\ MruInit
  /\ QuotaInit
  /\ P1Init
  /\ MainInit
  /\ T5Init
  /\ RgInit

Init == Fresh(MaxOps)

CanStart(w) ==
  /\ running /\ ~crashed
  /\ pc[w] = "idle"
  /\ nops < limit

Returns(w, op, user, pass, key, val, hash, ret) ==
  /\ pc' = [pc EXCEPT ![w] = "idle"]
  /\ loc' = [loc EXCEPT ![w] = NoLoc]
  /\ last' = [op |-> op, user |-> user, pass |-> pass, key |-> key,
              val |-> val, hash |-> hash, ret |-> ret]

Goes(w, to, l) ==
  /\ pc' = [pc EXCEPT ![w] = to]
  /\ loc' = [loc EXCEPT ![w] = l]
  /\ last' = last

Writes(rec) ==
  \E o \in WriteOutcomes(rec) : file' = o.file /\ crashed' = o.crashed

\* Another worker is between the two halves of an upsert or remove of key.
Parked(w, key) ==
  \E w2 \in Workers \ {w} : pc[w2] \in {"upsert", "remove"} /\ loc[w2].key = key

Touches(w, key) == raced' = [raced EXCEPT ![key] = @ \/ Parked(w, key)]

Mutates(op, key, val) ==
  kv_hist' = Append(kv_hist, [op |-> op, key |-> key, val |-> val])

\* A do_all_readonly that holds no lock while it scans.
ScanHoldsNone(w, b) == FALSE

\* do_all_readonly of worker w holds the shared lock of bucket b: it has
\* locked every bucket before its scan and it unlocks each bucket after
\* scanning it, in index order.
ScanHolds(w, b) == pc[w] = "kv_all" /\ loc[w].i <= b

\* mtx.lock() of bucket b returns: nobody holds the lock shared.
CanLock(b) == ~kv_rdlocked[b] /\ \A w \in Workers : ~ScanHolds(w, b)

\* Storage::load, called once by main before the workers start
\* What main sees of load(): "true", "false", or "hangs" when it never
\* returns.
LoadResult(ret) == [NoLast EXCEPT !.op = "LOAD", !.ret = ret]

load ==
  /\ ~running /\ ~crashed
  /\ IF file = NoFile
     THEN /\ file' = <<>>
          /\ f_ptr' = "w"
          /\ running' = TRUE
          /\ last' = LoadResult("true")
          /\ UNCHANGED <<auth_table, kv_store, kv_rdlocked>>
     ELSE IF file = <<>>
     THEN /\ f_ptr' = "r"
          /\ running' = TRUE
          /\ last' = LoadResult("true")
          /\ auth_table' = EmptyTable
          /\ kv_store' = EmptyTable
          /\ UNCHANGED <<file, kv_rdlocked>>
     ELSE /\ auth_table' = Loaded(file).auth
          /\ kv_store' = Loaded(file).kv
          /\ kv_rdlocked' = Loaded(file).rd
          /\ file' = file
          /\ IF Loaded(file).hung
             THEN /\ f_ptr' = "r"
                  /\ running' = FALSE
                  /\ last' = LoadResult("hangs")
             ELSE IF Loaded(file).bad
             THEN /\ f_ptr' = "r"
                  /\ running' = FALSE
                  /\ last' = LoadResult("false")
             ELSE /\ f_ptr' = "a+"
                  /\ running' = TRUE
                  /\ last' = LoadResult("true")
  /\ UNCHANGED <<tmpfile, crashed, pc, loc, regpass, kv_hist, raced,
                 nops, limit, nrestarts>>
  /\ UNCHANGED others

\* The process is stopped or killed and started again on the same data file:
\* main constructs a new Storage.
restart ==
  /\ running
  /\ nrestarts < MaxRestarts
  /\ nrestarts' = nrestarts + 1
  /\ running' = FALSE
  /\ crashed' = FALSE
  /\ auth_table' = EmptyTable
  /\ kv_store' = EmptyTable
  /\ kv_rdlocked' = [b \in Buckets |-> FALSE]
  /\ f_ptr' = "uninit"
  /\ pc' = [w \in Workers |-> "idle"]
  /\ loc' = [w \in Workers |-> NoLoc]
  /\ last' = NoLast
  /\ kv_hist' = <<>>
  /\ raced' = [k \in Keys |-> FALSE]
  /\ UNCHANGED <<file, tmpfile, regpass, nops, limit>>
  /\ UNCHANGED others

\* Storage::add_user
add_user(w, user, pass) ==
  /\ CanStart(w)
  /\ nops' = nops + 1
  /\ \E d \in Digests : \E h \in CStrings(d) :
       /\ auth_table' = InsertTable(auth_table, user,
                          [username |-> user, pass_hash |-> h, content |-> ""])
       /\ IF Contains(auth_table, user)
          THEN /\ Returns(w, "REG", user, pass, "", "", <<>>, "false")
               /\ UNCHANGED <<file, crashed, regpass>>
          ELSE /\ Returns(w, "REG", user, pass, "", "", <<>>, "true")
               /\ Writes(Rec(AUTHENTRY, user, d, ""))
               /\ regpass' = [regpass EXCEPT ![user] = pass]
  /\ UNCHANGED <<kv_store, kv_rdlocked, tmpfile, f_ptr, running, kv_hist,
                 raced, limit, nrestarts>>
  /\ UNCHANGED others

\* Storage::auth
auth(w, user, pass) ==
  /\ CanStart(w)
  /\ nops' = nops + 1
  /\ \E h \in HashesOf(pass) :
       Returns(w, "AUTH", user, pass, "", "", h,
               IF /\ Contains(auth_table, user)
                  /\ Authenticated(Lookup(auth_table, user).pass_hash, h)
               THEN "true" ELSE "false")
  /\ UNCHANGED <<auth_table, kv_store, kv_rdlocked, file, tmpfile, f_ptr,
                 running, crashed, regpass, kv_hist, raced, limit, nrestarts>>
  /\ UNCHANGED others

\* Storage::set_user_data
set_user_data(w, user, content) ==
  /\ CanStart(w)
  /\ nops' = nops + 1
  /\ \E ok \in AuthOutcomes(user) :
       IF ~ok
       THEN /\ Returns(w, "SET", user, "", "", content, <<>>, "ERR_LOGIN")
            /\ UNCHANGED <<auth_table, file, crashed>>
       ELSE /\ auth_table' = SetContent(auth_table, user, content)
            /\ Writes(Rec(AUTHDIFF, user, <<>>, content))
            /\ Returns(w, "SET", user, "", "", content, <<>>, "OK")
  /\ UNCHANGED <<kv_store, kv_rdlocked, tmpfile, f_ptr, running, regpass,
                 kv_hist, raced, limit, nrestarts>>
  /\ UNCHANGED others

\* Storage::get_user_data: the row of who is looked for, the content of
\* user_name is read.
get_user_data(w, user, who) ==
  /\ CanStart(w)
  /\ nops' = nops + 1
  /\ \E ok \in AuthOutcomes(user) :
       Returns(w, "GET", user, "", who, "", <<>>,
               IF ~ok THEN "ERR_LOGIN"
               ELSE IF ~Contains(auth_table, who) THEN "ERR_NO_USER"
               ELSE IF Lookup(auth_table, user).content = "" THEN "ERR_NO_DATA"
               ELSE Lookup(auth_table, user).content)
  /\ UNCHANGED <<auth_table, kv_store, kv_rdlocked, file, tmpfile, f_ptr,
                 running, crashed, regpass, kv_hist, raced, limit, nrestarts>>
  /\ UNCHANGED others

\* The callbacks of get_all_users and kv_all: each name, then a newline.
RECURSIVE NamesOf(_)
NamesOf(pairs) ==
  IF pairs = <<>> THEN ""
  ELSE Head(pairs).first \o "\n" \o NamesOf(Tail(pairs))

\* Storage::get_all_users
get_all_users(w, user) ==
  /\ CanStart(w)
  /\ nops' = nops + 1
  /\ \E ok \in AuthOutcomes(user) :
       Returns(w, "ALL", user, "", "", "", <<>>,
               IF ~ok THEN "ERR_LOGIN" ELSE NamesOf(Flatten(auth_table, 0)))
  /\ UNCHANGED <<auth_table, kv_store, kv_rdlocked, file, tmpfile, f_ptr,
                 running, crashed, regpass, kv_hist, raced, limit, nrestarts>>
  /\ UNCHANGED others

\* Storage::kv_all up to the point where do_all_readonly holds the shared
\* lock of every bucket of the store
kv_all(w, user) ==
  /\ CanStart(w)
  /\ nops' = nops + 1
  /\ \E ok \in AuthOutcomes(user) :
       IF ~ok
       THEN Returns(w, "KVA", user, "", "", "", <<>>, "ERR_LOGIN")
       ELSE Goes(w, "kv_all",
                 [NoLoc EXCEPT !.op = "KVA", !.user = user, !.i = 0,
                    !.snap = kv_store])
  /\ UNCHANGED <<auth_table, kv_store, kv_rdlocked, file, tmpfile, f_ptr,
                 running, crashed, regpass, kv_hist, raced, limit, nrestarts>>
  /\ UNCHANGED others

\* do_all_readonly of kv_all: f appends the keys of the next bucket, the
\* bucket is unlocked; after the last bucket kv_all returns what f gathered.
kv_all_scan(w) ==
  /\ running /\ ~crashed
  /\ pc[w] = "kv_all"
  /\ LET values == loc[w].val \o NamesOf(kv_store[loc[w].i])
     IN  IF loc[w].i + 1 < NumBuckets
         THEN Goes(w, "kv_all", [loc[w] EXCEPT !.i = @ + 1, !.val = values])
         ELSE Returns(w, "KVA", loc[w].user, "", "", "", <<>>,
                      IF values = "" THEN "ERR_NO_DATA" ELSE values)
  /\ UNCHANGED <<auth_table, kv_store, kv_rdlocked, file, tmpfile, f_ptr,
                 running, crashed, regpass, kv_hist, raced, nops, limit,
                 nrestarts>>
  /\ UNCHANGED others

\* Storage::kv_insert
kv_insert(w, user, key, val) ==
  /\ CanStart(w)
  /\ nops' = nops + 1
  /\ \E ok \in AuthOutcomes(user) :
       IF ~ok
       THEN /\ Returns(w, "KVI", user, "", key, val, <<>>, "ERR_LOGIN")
            /\ UNCHANGED <<kv_store, file, crashed, kv_hist, raced>>
       ELSE /\ CanLock(Index(key))
            /\ kv_store' = InsertTable(kv_store, key, val)
            /\ Touches(w, key)
            /\ IF Contains(kv_store, key)
               THEN /\ Returns(w, "KVI", user, "", key, val, <<>>, "ERR_KEY")
                    /\ UNCHANGED <<file, crashed, kv_hist>>
               ELSE /\ Returns(w, "KVI", user, "", key, val, <<>>, "OK")
                    /\ Writes(Rec(KVENTRY, key, <<>>, val))
                    /\ Mutates("KVI", key, val)
  /\ UNCHANGED <<auth_table, kv_rdlocked, tmpfile, f_ptr, running, regpass,
                 limit, nrestarts>>
  /\ UNCHANGED others

\* Storage::kv_get
kv_get(w, user, key) ==
  /\ CanStart(w)
  /\ nops' = nops + 1
  /\ \E ok \in AuthOutcomes(user) :
       IF ~ok
       THEN /\ Returns(w, "KVG", user, "", key, "", <<>>, "ERR_LOGIN")
            /\ UNCHANGED raced
       ELSE /\ Returns(w, "KVG", user, "", key, "", <<>>,
                       IF ~Contains(kv_store, key) THEN "ERR_KEY"
                       ELSE Lookup(kv_store, key))
            /\ Touches(w, key)
  /\ UNCHANGED <<auth_table, kv_store, kv_rdlocked, file, tmpfile, f_ptr,
                 running, crashed, regpass, kv_hist, limit, nrestarts>>
  /\ UNCHANGED others

\* Storage::kv_upsert up to the end of upsert's scan under the shared lock
kv_upsert_scan(w, user, key, val) ==
  /\ CanStart(w)
  /\ nops' = nops + 1
  /\ \E ok \in AuthOutcomes(user) :
       IF ~ok
       THEN /\ Returns(w, "KVU", user, "", key, val, <<>>, "ERR_LOGIN")
            /\ UNCHANGED raced
       ELSE /\ Goes(w, "upsert",
                    [NoLoc EXCEPT !.op = "KVU", !.user = user, !.key = key,
                       !.val = val, !.exists = Contains(kv_store, key),
                       !.i = IF Contains(kv_store, key)
                             THEN Find(kv_store[Index(key)], key)
                             ELSE Len(kv_store[Index(key)]) + 1])
            /\ Touches(w, key)
  /\ UNCHANGED <<auth_table, kv_store, kv_rdlocked, file, tmpfile, f_ptr,
                 running, crashed, regpass, kv_hist, limit, nrestarts>>
  /\ UNCHANGED others

\* upsert under the exclusive lock, with the callback that logs
kv_upsert_apply(w) ==
  /\ running /\ ~crashed
  /\ pc[w] = "upsert"
  /\ CanLock(Index(loc[w].key))
  /\ \E o \in UpsertOutcomes(kv_store, loc[w].key, loc[w].val,
                             loc[w].exists, loc[w].i) :
       /\ kv_store' = o.table
       /\ IF o.crashed
          THEN /\ crashed' = TRUE
               /\ UNCHANGED <<file, pc, loc, last, kv_hist, raced>>
          ELSE /\ Writes(Rec(IF loc[w].exists THEN KVUPDATE ELSE KVENTRY,
                             loc[w].key, <<>>, loc[w].val))
               /\ Returns(w, "KVU", loc[w].user, "", loc[w].key, loc[w].val,
                          <<>>, IF loc[w].exists THEN "OKUPD" ELSE "OKINS")
               /\ Mutates("KVU", loc[w].key, loc[w].val)
               /\ Touches(w, loc[w].key)
  /\ UNCHANGED <<auth_table, kv_rdlocked, tmpfile, f_ptr, running, regpass,
                 nops, limit, nrestarts>>
  /\ UNCHANGED others

\* Storage::kv_delete up to the end of remove's scan under the shared lock,
\* which remove keeps when it does not find the key
kv_delete_scan(w, user, key) ==
  /\ CanStart(w)
  /\ nops' = nops + 1
  /\ \E ok \in AuthOutcomes(user) :
       IF ~ok
       THEN /\ Returns(w, "KVD", user, "", key, "", <<>>, "ERR_LOGIN")
            /\ UNCHANGED <<kv_rdlocked, raced>>
       ELSE IF RemoveScan(kv_store, key) = 0
       THEN /\ Returns(w, "KVD", user, "", key, "", <<>>, "ERR_KEY")
            /\ kv_rdlocked' = [kv_rdlocked EXCEPT ![Index(key)] = TRUE]
            /\ Touches(w, key)
       ELSE /\ Goes(w, "remove",
                    [NoLoc EXCEPT !.op = "KVD", !.user = user, !.key = key,
                       !.exists = TRUE, !.i = RemoveScan(kv_store, key)])
            /\ Touches(w, key)
            /\ UNCHANGED kv_rdlocked
  /\ UNCHANGED <<auth_table, kv_store, file, tmpfile, f_ptr, running, crashed,
                 regpass, kv_hist, limit, nrestarts>>
  /\ UNCHANGED others

\* remove under the exclusive lock, with the callback that logs
kv_delete_apply(w) ==
  /\ running /\ ~crashed
  /\ pc[w] = "remove"
  /\ CanLock(Index(loc[w].key))
  /\ \E o \in RemoveOutcomes(kv_store, loc[w].key, loc[w].i) :
       /\ kv_store' = o.table
       /\ IF o.crashed
          THEN /\ crashed' = TRUE
               /\ UNCHANGED <<file, pc, loc, last, kv_hist, raced>>
          ELSE /\ Writes(Rec(KVDELETE, loc[w].key, <<>>, ""))
               /\ Returns(w, "KVD", loc[w].user, "", loc[w].key, "", <<>>, "OK")
               /\ Mutates("KVD", loc[w].key, "")
               /\ Touches(w, loc[w].key)
  /\ UNCHANGED <<auth_table, kv_rdlocked, tmpfile, f_ptr, running, regpass,
                 nops, limit, nrestarts>>
  /\ UNCHANGED others

\* do_with, second half: f(elements[i].second) under the exclusive lock,
\* with i as the scan under the shared lock left it.  Past the end of the
\* vector f writes into a dead slot or the process is killed.
DoWithOutcomes(table, key, val, i) ==
  LET b == Index(key)
  IN  IF i <= Len(table[b])
      THEN {[table |-> [table EXCEPT ![b][i].second = val], crashed |-> FALSE]}
      ELSE {[table |-> table, crashed |-> FALSE],
            [table |-> table, crashed |-> TRUE]}

\* A thread calls do_with(key, f) of the store, f assigning val as the
\* callback of load() does: up to the end of the scan under the shared lock
do_with_scan(w, key, val) ==
  /\ CanStart(w)
  /\ nops' = nops + 1
  /\ IF ~Contains(kv_store, key)
     THEN Returns(w, "WITH", "", "", key, val, <<>>, "false")
     ELSE Goes(w, "do_with",
               [NoLoc EXCEPT !.op = "WITH", !.key = key, !.val = val,
                  !.exists = TRUE, !.i = Find(kv_store[Index(key)], key)])
  /\ UNCHANGED <<auth_table, kv_store, kv_rdlocked, file, tmpfile, f_ptr,
                 running, crashed, regpass, kv_hist, raced, limit, nrestarts>>
  /\ UNCHANGED others

\* do_with under the exclusive lock
do_with_apply(w) ==
  /\ running /\ ~crashed
  /\ pc[w] = "do_with"
  /\ CanLock(Index(loc[w].key))
  /\ \E o \in DoWithOutcomes(kv_store, loc[w].key, loc[w].val, loc[w].i) :
       /\ kv_store' = o.table
       /\ crashed' = o.crashed
       /\ IF o.crashed
          THEN UNCHANGED <<pc, loc, last>>
          ELSE Returns(w, "WITH", "", "", loc[w].key, loc[w].val, <<>>, "true")
  /\ UNCHANGED <<auth_table, kv_rdlocked, file, tmpfile, f_ptr, running,
                 regpass, kv_hist, raced, nops, limit, nrestarts>>
  /\ UNCHANGED others

\* The records persist() gathers: do_all_readonly runs `then` first, so
\* the KVKVKVKV records of the store come before the AUTHAUTH records.
KVRecords(table) ==
  [j \in 1 .. Len(Flatten(table, 0)) |->
     Rec(KVENTRY, Flatten(table, 0)[j].first, <<>>, Flatten(table, 0)[j].second)]

AuthRecords(table) ==
  [j \in 1 .. Len(Flatten(table, 0)) |->
     Rec(AUTHENTRY, Flatten(table, 0)[j].second.username,
         Flatten(table, 0)[j].second.pass_hash,
         Flatten(table, 0)[j].second.content)]

Snapshot(users, store) == KVRecords(store) \o AuthRecords(users)

\* Storage::persist, fclose(f_ptr).  Closing a stream that is closed
\* already frees it twice: nothing happens or the process is killed.
persist_close(w) ==
  /\ CanStart(w)
  /\ nops' = nops + 1
  /\ f_ptr' = "closed"
  /\ \/ /\ crashed' = FALSE
        /\ Goes(w, "persist_scan", [NoLoc EXCEPT !.op = "SAV"])
     \/ /\ f_ptr = "closed"
        /\ crashed' = TRUE
        /\ UNCHANGED <<pc, loc, last>>
  /\ UNCHANGED <<auth_table, kv_store, kv_rdlocked, file, tmpfile, running,
                 regpass, kv_hist, raced, limit, nrestarts>>
  /\ UNCHANGED others

\* A scan that moves the pairs out of the store as it gathers them.
persist_scan_draining(w) ==
  /\ running /\ ~crashed
  /\ pc[w] = "persist_scan"
  /\ tmpfile' = IF KVRecords(kv_store) = <<>> THEN tmpfile
                ELSE KVRecords(kv_store)
  /\ kv_store' = EmptyTable
  /\ Goes(w, "persist_write",
          [loc[w] EXCEPT !.data = Snapshot(auth_table, kv_store),
                         !.snap = <<auth_table, kv_store>>])
  /\ UNCHANGED <<auth_table, kv_rdlocked, file, f_ptr, running,
                 crashed, regpass, kv_hist, raced, nops, limit, nrestarts>>
  /\ UNCHANGED others

\* persist, the two do_all_readonly: every bucket of both tables is locked
\* shared while the store is read (each pair read is followed by a
\* write_file of what has been gathered) and then the auth table.
persist_scan(w) ==
  /\ running /\ ~crashed
  /\ pc[w] = "persist_scan"
  /\ tmpfile' = IF KVRecords(kv_store) = <<>> THEN tmpfile
                ELSE KVRecords(kv_store)
  /\ Goes(w, "persist_write",
          [loc[w] EXCEPT !.data = Snapshot(auth_table, kv_store),
                         !.snap = <<auth_table, kv_store>>])
  /\ UNCHANGED <<auth_table, kv_store, kv_rdlocked, file, f_ptr, running,
                 crashed, regpass, kv_hist, raced, nops, limit, nrestarts>>
  /\ UNCHANGED others

\* persist, write_file(filename + ".tmp", data)
persist_write(w) ==
  /\ running /\ ~crashed
  /\ pc[w] = "persist_write"
  /\ tmpfile' = loc[w].data
  /\ Goes(w, "persist_rename", loc[w])
  /\ UNCHANGED <<auth_table, kv_store, kv_rdlocked, file, f_ptr, running,
                 crashed, regpass, kv_hist, raced, nops, limit, nrestarts>>
  /\ UNCHANGED others

\* persist, rename(filename + ".tmp", filename), which fails when another
\* persist has renamed the temporary file away
persist_rename(w) ==
  /\ running /\ ~crashed
  /\ pc[w] = "persist_rename"
  /\ IF tmpfile = NoFile
     THEN UNCHANGED <<file, tmpfile>>
     ELSE file' = tmpfile /\ tmpfile' = NoFile
  /\ Returns(w, "SAV", "", "", "", "", <<>>, "")
  /\ UNCHANGED <<auth_table, kv_store, kv_rdlocked, f_ptr, running, crashed,
                 regpass, kv_hist, raced, nops, limit, nrestarts>>
  /\ UNCHANGED others

\* ------------------------------------------------------------- specifications
AuthOps(W, U) ==
  \/ \E w \in W, u \in U, p \in Passwords : add_user(w, u, p)
  \/ \E w \in W, u \in U, p \in Passwords : auth(w, u, p)
  \/ \E w \in W, u \in U, c \in Contents : set_user_data(w, u, c)

ReadOps(W, U) ==
  \/ \E w \in W, u \in U, who \in Users : get_user_data(w, u, who)
  \/ \E w \in W, u \in U : get_all_users(w, u)
  \/ \E w \in W, u \in U : kv_all(w, u)
  \/ \E w \in W : kv_all_scan(w)

KVOps(W, U) ==
  \/ \E w \in W, u \in U, k \in Keys, v \in Values : kv_insert(w, u, k, v)
  \/ \E w \in W, u \in U, k \in Keys : kv_get(w, u, k)
  \/ \E w \in W, u \in U, k \in Keys, v \in Values : kv_upsert_scan(w, u, k, v)
  \/ \E w \in W : kv_upsert_apply(w)
  \/ \E w \in W, u \in U, k \in Keys : kv_delete_scan(w, u, k)
  \/ \E w \in W : kv_delete_apply(w)

Persist(W) ==
  \/ \E w \in W : persist_close(w)
  \/ \E w \in W : persist_scan(w)
  \/ \E w \in W : persist_write(w)
  \/ \E w \in W : persist_rename(w)

\* The whole server from its first start, restarts included.
Next ==
  \/ load
  \/ restart
  \/ AuthOps(Workers, {"alice"})
  \/ ReadOps(Workers, {"alice"})
  \/ KVOps(Workers, {"alice"})
  \/ Persist(Workers)

Spec == Init /\ [][Next]_vars

\* Registration, login and content, two users.
InitAuth == Fresh(MaxAuthOps)
NextAuth == load \/ AuthOps(Workers, Users) \/ ReadOps(Workers, Users)
SpecAuth == InitAuth /\ [][NextAuth]_vars

\* Concurrent workers on the store of a loaded server: kv_insert, kv_get,
\* kv_upsert and kv_delete only.
InitKV == Preloaded(MaxKVOps)
NextKV == KVOps(Workers, {"alice"})
SpecKV == InitKV /\ [][NextKV]_vars

\* The same with persist() and set_user_data.
InitSav == Preloaded(MaxSavOps)
NextSav ==
  \/ KVOps(Workers, {"alice"})
  \/ Persist(Workers)
  \/ \E w \in Workers, c \in Contents : set_user_data(w, "alice", c)
SpecSav == InitSav /\ [][NextSav]_vars

\* The table of the store under its callers: the key-value operations of
\* Storage, kv_all and direct calls of do_with.
TableOps(W, U) ==
  \/ \E w \in W, k \in Keys, v \in Values : do_with_scan(w, k, v)
  \/ \E w \in W : do_with_apply(w)
  \/ \E w \in W, u \in U : kv_all(w, u)
  \/ \E w \in W : kv_all_scan(w)

InitTable == Preloaded(MaxTableOps)
NextTable == KVOps(Workers, {"alice"}) \/ TableOps(Workers, {"alice"})
SpecTable == InitTable /\ [][NextTable]_vars

\* The records a data file may hold, one of them with a magic that is none
\* of the five, and the data files main may be started on.
LogRecords ==
  {Rec(AUTHENTRY, "alice", <<1>>, ""), Rec(AUTHDIFF, "alice", <<>>, "hello"),
   Rec(KVENTRY, "k1", <<>>, "v1"), Rec(KVUPDATE, "k1", <<>>, "v2"),
   Rec(KVDELETE, "k1", <<>>, ""), Rec("GARBAGE!", "", <<>>, "")}
LogFiles == UNION {[1 .. n -> LogRecords] : n \in 0 .. MaxFileLen}

InitLoad == \E f \in LogFiles : FreshOn(f, 0)
NextLoad == load
SpecLoad == InitLoad /\ [][NextLoad]_vars

\* One client after the other against a fresh server: no two operations
\* overlap.
InitSeq == Fresh(MaxSeqOps)
NextSeq ==
  \/ load
  \/ AuthOps({1}, {"alice"})
  \/ KVOps({1}, {"alice"})
  \/ Persist({1})
SpecSeq == InitSeq /\ [][NextSeq]_vars
\* ------------------------------------------------------------- mru_manager
MruCanStart(w) ==
  /\ ~mru_crashed
  /\ mru_loc[w] = ""
  /\ mru_nops < MaxMruOps

\* A worker is between the remove() and the push_back of an insert().
MruQuiet == \A w \in Workers : mru_loc[w] = ""

\* mru_manager::remove, the loop: the first occurrence of elt is erased.
RECURSIVE EraseFirst(_, _)
EraseFirst(d, elt) ==
  IF d = <<>> THEN <<>>
  ELSE IF Head(d) = elt THEN Tail(d)
  ELSE <<Head(d)>> \o EraseFirst(Tail(d), elt)

\* mru_manager::get, the loop: from end() - 1 down to, and without,
\* begin(), each element after a newline.
RECURSIVE LinesDown(_, _)
LinesDown(d, i) ==
  IF i < 2 THEN <<>> ELSE <<"\n", d[i]>> \o LinesDown(d, i - 1)

\* What *end() reads: the slot past the last element holds no string, or
\* the bytes of one that was there before.
PastEnd == {<<>>} \cup {<<k>> : k \in MruKeys}

\* mru_manager::get: the set of outcomes [rv, crashed].  On an empty deque
\* the loop starts before begin() and never meets it.
MruGetOutcomes(d) ==
  IF d = <<>> THEN {[rv |-> <<>>, crashed |-> TRUE]}
  ELSE {[rv |-> g \o LinesDown(d, Len(d)), crashed |-> FALSE] : g \in PastEnd}
       \cup {[rv |-> <<>>, crashed |-> TRUE]}

\* mru_manager::insert, the call of remove(elt)
mru_insert_remove(w, elt) ==
  /\ MruCanStart(w)
  /\ mru_nops' = mru_nops + 1
  /\ mru' = EraseFirst(mru, elt)
  /\ mru_loc' = [mru_loc EXCEPT ![w] = elt]
  /\ UNCHANGED <<mru_last, mru_hist, mru_crashed>>
  /\ UNCHANGED <<storageVars, quotaVars, p1Vars, mainVars,
                 t5Vars, rgVars>>

\* mru_manager::insert, the push_back under the lock taken anew
mru_insert_push(w) ==
  /\ ~mru_crashed
  /\ mru_loc[w] # ""
  /\ mru' = Append(mru, mru_loc[w])
  /\ mru_hist' = Append(mru_hist, [op |-> "insert", elt |-> mru_loc[w]])
  /\ mru_loc' = [mru_loc EXCEPT ![w] = ""]
  /\ UNCHANGED <<mru_last, mru_nops, mru_crashed>>
  /\ UNCHANGED <<storageVars, quotaVars, p1Vars, mainVars,
                 t5Vars, rgVars>>

\* mru_manager::remove
mru_remove(w, elt) ==
  /\ MruCanStart(w)
  /\ mru_nops' = mru_nops + 1
  /\ mru' = EraseFirst(mru, elt)
  /\ mru_hist' = Append(mru_hist, [op |-> "remove", elt |-> elt])
  /\ UNCHANGED <<mru_loc, mru_last, mru_crashed>>
  /\ UNCHANGED <<storageVars, quotaVars, p1Vars, mainVars,
                 t5Vars, rgVars>>

\* mru_manager::clear
mru_clear(w) ==
  /\ MruCanStart(w)
  /\ mru_nops' = mru_nops + 1
  /\ mru' = <<>>
  /\ mru_hist' = Append(mru_hist, [op |-> "clear", elt |-> ""])
  /\ UNCHANGED <<mru_loc, mru_last, mru_crashed>>
  /\ UNCHANGED <<storageVars, quotaVars, p1Vars, mainVars,
                 t5Vars, rgVars>>

\* mru_manager::get
mru_get(w) ==
  /\ MruCanStart(w)
  /\ mru_nops' = mru_nops + 1
  /\ \E o \in MruGetOutcomes(mru) :
       /\ mru_crashed' = o.crashed
       /\ mru_last' = IF o.crashed THEN mru_last
                      ELSE [op |-> "get", rv |-> o.rv, hist |-> mru_hist,
                            quiet |-> MruQuiet]
  /\ UNCHANGED <<mru, mru_loc, mru_hist>>
  /\ UNCHANGED <<storageVars, quotaVars, p1Vars, mainVars,
                 t5Vars, rgVars>>

InitMru == Fresh(0)
NextMru ==
  \/ \E w \in Workers, k \in MruKeys : mru_insert_remove(w, k)
  \/ \E w \in Workers : mru_insert_push(w)
  \/ \E w \in Workers, k \in MruKeys : mru_remove(w, k)
  \/ \E w \in Workers : mru_clear(w)
  \/ \E w \in Workers : mru_get(w)
SpecMru == InitMru /\ [][NextMru]_vars

\* ------------------------------------------------------------- quota_tracker
RECURSIVE SumAmounts(_)
SumAmounts(events) ==
  IF events = <<>> THEN 0 ELSE Head(events).amnt + SumAmounts(Tail(events))

\* quota_tracker::check, the loop: an event stays unless
\* difftime(cur_time, when) > dur.
Pruned(events, now) ==
  SelectSeq(events, LAMBDA e : ~(now - e.when > QuotaDur))

\* quota_tracker::check, the comparison, in size_t arithmetic.
Allowed(amt, amount) == ~((amt + amount) % (2 ^ SizeBits) > QuotaMax)

QuotaCanStart ==
  /\ q_built
  /\ q_nops < MaxQuotaOps

\* The check() that returns now, as q_last records it.
Checked(amount) ==
  [op |-> "check", amount |-> amount, ret |-> Allowed(q_amt, amount),
   winsum |-> SumAmounts(SelectSeq(q_added,
                LAMBDA e : e.when > q_now - QuotaDur)),
   rejected |-> q_rejected, first |-> q_first]

\* quota_tracker::quota_tracker(amount, duration): no initializer gives
\* q_amt a value.
quota_tracker ==
  /\ ~q_built
  /\ q_built' = TRUE
  /\ q_amt' \in SizeT
  /\ q_first' = q_amt'
  /\ UNCHANGED <<q_events, q_now, q_last, q_added, q_paired, q_rejected, q_nops>>
  /\ UNCHANGED <<storageVars, mruVars, p1Vars, mainVars,
                 t5Vars, rgVars>>

\* quota_tracker::quota_tracker(other): the tracker is replaced by a copy
\* of itself, as when the row that holds it is copied.
quota_tracker_copy ==
  /\ QuotaCanStart
  /\ q_nops' = q_nops + 1
  /\ q_amt' \in SizeT
  /\ q_first' = q_amt'
  /\ UNCHANGED <<q_built, q_events, q_now, q_last, q_added, q_paired, q_rejected>>
  /\ UNCHANGED <<storageVars, mruVars, p1Vars, mainVars,
                 t5Vars, rgVars>>

\* A second of wall time passes.
q_tick ==
  /\ q_built
  /\ q_now < MaxTime
  /\ q_now' = q_now + 1
  /\ UNCHANGED <<q_built, q_events, q_amt, q_first, q_last, q_added,
                 q_paired, q_rejected, q_nops>>
  /\ UNCHANGED <<storageVars, mruVars, p1Vars, mainVars,
                 t5Vars, rgVars>>

\* quota_tracker::check
q_check(amount) ==
  /\ QuotaCanStart
  /\ q_nops' = q_nops + 1
  /\ q_events' = Pruned(q_events, q_now)
  /\ q_last' = Checked(amount)
  /\ q_rejected' = (q_rejected \/ ~Allowed(q_amt, amount))
  /\ UNCHANGED <<q_built, q_amt, q_first, q_now, q_added, q_paired>>
  /\ UNCHANGED <<storageVars, mruVars, p1Vars, mainVars,
                 t5Vars, rgVars>>

\* quota_tracker::add
q_add(amount) ==
  /\ QuotaCanStart
  /\ q_nops' = q_nops + 1
  /\ q_amt' = (q_amt + amount) % (2 ^ SizeBits)
  /\ q_events' = Append(q_events, [when |-> q_now, amnt |-> amount])
  /\ q_added' = Append(q_added, [when |-> q_now, amnt |-> amount])
  /\ q_paired' = FALSE
  /\ UNCHANGED <<q_built, q_first, q_now, q_last, q_rejected>>
  /\ UNCHANGED <<storageVars, mruVars, p1Vars, mainVars,
                 t5Vars, rgVars>>

\* The caller's pairing: check(amount) and, when it returns true,
\* add(amount), with no other call on the tracker between the two.
q_check_add(amount) ==
  /\ QuotaCanStart
  /\ q_nops' = q_nops + 1
  /\ q_last' = Checked(amount)
  /\ q_rejected' = (q_rejected \/ ~Allowed(q_amt, amount))
  /\ IF Allowed(q_amt, amount)
     THEN /\ q_amt' = (q_amt + amount) % (2 ^ SizeBits)
          /\ q_events' = Append(Pruned(q_events, q_now),
                                [when |-> q_now, amnt |-> amount])
          /\ q_added' = Append(q_added, [when |-> q_now, amnt |-> amount])
     ELSE /\ q_events' = Pruned(q_events, q_now)
          /\ UNCHANGED <<q_amt, q_added>>
  /\ UNCHANGED <<q_built, q_first, q_now, q_paired>>
  /\ UNCHANGED <<storageVars, mruVars, p1Vars, mainVars,
                 t5Vars, rgVars>>

InitQuota == Fresh(0)
NextQuota ==
  \/ quota_tracker
  \/ quota_tracker_copy
  \/ q_tick
  \/ \E a \in Amounts : q_check(a)
  \/ \E a \in Amounts : q_add(a)
  \/ \E a \in Amounts : q_check_add(a)
SpecQuota == InitQuota /\ [][NextQuota]_vars

\* ------------------------------------------------------------- p1: Storage
\* The 32 hexadecimal digits of the MD5 of the password's bytes.
MD5Hex(pass) == "md5(" \o pass \o ")"

\* Storage::exists
p1_exists(table, user) == user \in DOMAIN table

\* Storage::auth; its callers have found the user in the table.
p1_auth(table, user, pass) == MD5Hex(pass) = table[user].pass_hash

\* Storage::error_check
p1_error_check(table, user, pass) ==
  IF ~p1_exists(table, user)
  THEN [first |-> TRUE, second |-> "ERR_NO_USER"]
  ELSE IF ~p1_auth(table, user, pass)
  THEN [first |-> TRUE, second |-> "ERR_LOGIN"]
  ELSE [first |-> FALSE, second |-> "OK"]

\* Storage::add_user
p1_add_user(table, user, pass) ==
  IF p1_exists(table, user)
  THEN [table |-> table, ret |-> FALSE]
  ELSE [table |-> (user :> [username |-> user, pass_hash |-> MD5Hex(pass),
                             content |-> ""]) @@ table,
        ret |-> TRUE]

\* Storage::set_user_data
p1_set_user_data(table, user, pass, content) ==
  LET check == p1_error_check(table, user, pass)
  IN  IF check.first
      THEN [table |-> table, ret |-> check.second]
      ELSE [table |-> [table EXCEPT ![user].content = content], ret |-> "OK"]

\* Storage::get_user_data: first is false on an error.
p1_get_user_data(table, user, pass, who) ==
  IF ~p1_exists(table, user)
  THEN [first |-> FALSE, second |-> "ERR_LOGIN"]
  ELSE IF ~p1_auth(table, user, pass)
  THEN [first |-> FALSE, second |-> "ERR_LOGIN"]
  ELSE IF ~p1_exists(table, who)
  THEN [first |-> FALSE, second |-> "ERR_NO_USER"]
  ELSE IF table[who].content = ""
  THEN [first |-> FALSE, second |-> "ERR_NO_DATA"]
  ELSE [first |-> TRUE, second |-> table[who].content]

\* A zero byte.
NUL == "^@"

RECURSIVE Zeros(_)
Zeros(n) == IF n = 0 THEN "" ELSE NUL \o Zeros(n - 1)

RECURSIVE Lines(_)
Lines(names) ==
  IF names = <<>> THEN "" ELSE Head(names) \o "\n" \o Lines(Tail(names))

\* The orders in which an unordered_map may hand out its keys.
Orders(S) ==
  {o \in [1 .. Cardinality(S) -> S] :
     \A i, j \in 1 .. Cardinality(S) : i # j => o[i] # o[j]}

\* Storage::get_all_users: the vector is built with size() zero bytes and
\* the names are appended to it.
p1_get_all_users(table, user, pass) ==
  LET check == p1_error_check(table, user, pass)
  IN  IF check.first
      THEN {check}
      ELSE {[first |-> TRUE,
             second |-> Zeros(Cardinality(DOMAIN table)) \o Lines(o)] :
              o \in Orders(DOMAIN table)}

\* A caller of the class makes its next call.
P1Returns(op, user, pass, arg, ret) ==
  /\ p1_nops < MaxP1Ops
  /\ p1_nops' = p1_nops + 1
  /\ p1_last' = [op |-> op, user |-> user, pass |-> pass, arg |-> arg,
                 ret |-> ret, before |-> p1_auth_table]
  /\ UNCHANGED <<p1_pc, p1_conn, p1_bye, p1_nconn>>
  /\ UNCHANGED <<p1_file, p1_tmpfile>>
  /\ UNCHANGED <<storageVars, mruVars, quotaVars, mainVars,
                 t5Vars, rgVars>>

call_add_user(user, pass) ==
  LET r == p1_add_user(p1_auth_table, user, pass)
  IN  /\ p1_auth_table' = r.table
      /\ P1Returns("REG", user, pass, "", IF r.ret THEN "true" ELSE "false")

call_set_user_data(user, pass, content) ==
  LET r == p1_set_user_data(p1_auth_table, user, pass, content)
  IN  /\ p1_auth_table' = r.table
      /\ P1Returns("SET", user, pass, content, r.ret)

call_get_user_data(user, pass, who) ==
  /\ p1_auth_table' = p1_auth_table
  /\ P1Returns("GET", user, pass, who,
               p1_get_user_data(p1_auth_table, user, pass, who).second)

call_get_all_users(user, pass) ==
  /\ p1_auth_table' = p1_auth_table
  /\ \E r \in p1_get_all_users(p1_auth_table, user, pass) :
       P1Returns("ALL", user, pass, "", r.second)

\* Storage::persist: the entries go to <filename>.tmp, in the order the
\* unordered_map hands them out, and that is all.
p1_persist(table) ==
  {[i \in 1 .. Len(o) |-> table[o[i]]] : o \in Orders(DOMAIN table)}

\* Storage::load for a data file of these entries: [table, ret].  The loop
\* skips eight bytes of magic before the first entry only, so that the
\* magic of a second entry is read as the length of its user name, and the
\* string built with that length reads far past the buffer: "killed".  When
\* the loop ends, load returns false.
p1_load(table, f) ==
  IF f = P1NoFile THEN [table |-> table, ret |-> "true"]
  ELSE IF f = <<>> THEN [table |-> [u \in {} |-> ""], ret |-> "true"]
  ELSE [table |-> (f[1].username :> f[1]),
        ret |-> IF Len(f) = 1 THEN "false" ELSE "killed"]

call_persist ==
  /\ p1_nops < MaxP1Ops
  /\ p1_nops' = p1_nops + 1
  /\ p1_tmpfile' \in p1_persist(p1_auth_table)
  /\ p1_last' = [NoCall EXCEPT !.op = "SAV", !.before = p1_auth_table]
  /\ UNCHANGED <<p1_auth_table, p1_file, p1_pc, p1_conn, p1_bye, p1_nconn>>
  /\ UNCHANGED <<storageVars, mruVars, quotaVars, mainVars,
                 t5Vars, rgVars>>

call_load ==
  LET r == p1_load(p1_auth_table, p1_file)
  IN  /\ p1_auth_table' = r.table
      /\ P1Returns("LOAD", "", "", "", r.ret)

\* The process ends and a new one constructs its Storage on the same files.
call_Storage ==
  /\ p1_auth_table' = [u \in {} |-> ""]
  /\ P1Returns("NEW", "", "", "", "")

InitP1Persist == Fresh(0)
NextP1Persist ==
  \/ \E u \in Users, p \in Passwords : call_add_user(u, p)
  \/ \E u \in Users, p \in Passwords, c \in Contents : call_set_user_data(u, p, c)
  \/ call_persist
  \/ call_load
  \/ call_Storage
SpecP1Persist == InitP1Persist /\ [][NextP1Persist]_vars

InitP1Storage == Fresh(0)
NextP1Storage ==
  \/ \E u \in Users, p \in Passwords : call_add_user(u, p)
  \/ \E u \in Users, p \in Passwords, c \in Contents : call_set_user_data(u, p, c)
  \/ \E u \in Users, p \in Passwords, who \in Users : call_get_user_data(u, p, who)
  \/ \E u \in Users, p \in Passwords : call_get_all_users(u, p)
SpecP1Storage == InitP1Storage /\ [][NextP1Storage]_vars

\* ------------------------------------------------------------- p1: the server
Cmds == {"REG", "BYE", "SET", "GET", "ALL", "SAV"}
Mnemonics == Cmds \cup {"XXX"}
AesKeys == {"aes1", "aes2"}

\* What a client sends on a connection: the three bytes KEY, or an RSA
\* block (which decrypts or not) naming a command and an AES key, followed
\* by the AES block (which decrypts or not) of the command's fields.
Requests ==
  {[NoRequest EXCEPT !.kind = "KEY"]}
  \cup [kind : {"CMD"}, cmd : Mnemonics, key : AesKeys, rsa_ok : BOOLEAN,
        aes_ok : BOOLEAN, user : Users \cup {""}, pass : Passwords,
        arg : Users \cup {""}]

EncryptedClear(key, text) == [key |-> "", text |-> text]

\* aes_crypt_msg with the context of this key.
Encrypted(key, text) == [key |-> key, text |-> text]

\* The bytes that may lie after the end of a vector.
PastVec == {NUL, "x"}

\* string(char*) of a vector's data, which ends at the first zero byte met,
\* in the vector or after it.
CStringOf(text) == {text} \cup {text \o "x"}

\* server_cmd_reg
server_cmd_reg(table, key, r) ==
  LET fmt == r.user = "" \/ r.pass = ""
      a == p1_add_user(table, r.user, r.pass)
  IN  {[table |-> IF fmt THEN table ELSE a.table,
        sent |-> <<Encrypted(key, IF fmt THEN "ERR_MSG_FMT"
                                  ELSE IF ~a.ret THEN "ERR_USER_EXISTS"
                                  ELSE "OK")>>]}

\* server_cmd_get: who is taken one byte longer than what follows the
\* second newline; on success the reply is res as it stands, not the data.
server_cmd_get(table, key, r) ==
  LET fmt == r.user = "" \/ r.pass = ""
  IN  UNION {
        LET rv == p1_get_user_data(table, r.user, r.pass, r.arg \o b)
        IN  IF ~rv.first
            THEN {[table |-> table, sent |-> <<Encrypted(key, t)>>] :
                    t \in CStringOf(rv.second)}
            ELSE {[table |-> table,
                   sent |-> <<Encrypted(key, IF fmt THEN "ERR_MSG_FMT"
                                             ELSE "OK")>>]}
        : b \in PastVec}

\* server_cmd_all, server_cmd_set, server_cmd_bye, server_cmd_sav
server_cmd_stub(table, key, r) == {[table |-> table, sent |-> <<>>]}

\* dec after RSA_private_decrypt: on failure its bytes are whatever the
\* stack held.
Decoded(r) ==
  IF r.rsa_ok THEN {[cmd |-> r.cmd, key |-> r.key]}
  ELSE [cmd : Mnemonics, key : AesKeys]

\* serve_client from the RSA decryption on.  After a failed decryption the
\* length of the AES block is garbage too: vec enc_ablock(*ablock_len)
\* throws for a length it cannot allocate, and nothing catches it.
Dispatch(table, r) ==
  UNION {
    \* the AES block does not arrive
    {[table |-> table, sent |-> <<>>, received |-> FALSE, bye |-> FALSE,
      crashed |-> FALSE]}
    \cup
    (IF r.rsa_ok THEN {}
     ELSE {[table |-> table, sent |-> <<>>, received |-> FALSE, bye |-> FALSE,
            crashed |-> TRUE]})
    \cup
    IF ~(r.aes_ok /\ d.key = r.key)
    THEN {[table |-> table, sent |-> <<Encrypted(d.key, "ERR_CRYPTO")>>,
           received |-> TRUE, bye |-> FALSE, crashed |-> FALSE]}
    ELSE {[table |-> o.table, sent |-> o.sent, received |-> TRUE,
           bye |-> /\ r.rsa_ok /\ d.cmd = "BYE"
                   /\ p1_exists(table, r.user)
                   /\ p1_auth(table, r.user, r.pass),
           crashed |-> FALSE] :
           o \in CASE d.cmd = "REG" -> server_cmd_reg(table, d.key, r)
                   [] d.cmd = "GET" -> server_cmd_get(table, d.key, r)
                   [] d.cmd \in {"BYE", "SET", "ALL", "SAV"} ->
                        server_cmd_stub(table, d.key, r)
                   [] OTHER -> {[table |-> table, sent |-> <<>>]}}
    : d \in Decoded(r)}

ServeOutcomes(table, r) ==
  \* the first block does not arrive
  {[table |-> table, sent |-> <<>>, received |-> FALSE, bye |-> FALSE,
    crashed |-> FALSE]}
  \cup
  IF r.kind = "KEY"
  THEN {[table |-> table, sent |-> <<Encrypted("", "pub")>>,
         received |-> TRUE, bye |-> FALSE, crashed |-> FALSE]}
  ELSE Dispatch(table, r)

\* accept_client: accept() returns a connection.
accept_client(r) ==
  /\ p1_pc = "accept"
  /\ p1_nconn < MaxConns
  /\ p1_nconn' = p1_nconn + 1
  /\ p1_pc' = "serve"
  /\ p1_conn' = [NoConn EXCEPT !.req = r]
  /\ UNCHANGED <<p1_auth_table, p1_last, p1_nops, p1_bye>>
  /\ UNCHANGED <<p1_file, p1_tmpfile>>
  /\ UNCHANGED <<storageVars, mruVars, quotaVars, mainVars,
                 t5Vars, rgVars>>

\* accept_client: accept() fails.
accept_client_error ==
  /\ p1_pc = "accept"
  /\ p1_pc' = "returned"
  /\ UNCHANGED <<p1_auth_table, p1_last, p1_nops, p1_conn, p1_bye, p1_nconn>>
  /\ UNCHANGED <<p1_file, p1_tmpfile>>
  /\ UNCHANGED <<storageVars, mruVars, quotaVars, mainVars,
                 t5Vars, rgVars>>

\* serve_client: every return of it is a return false.
serve_client ==
  /\ p1_pc = "serve"
  /\ \E o \in ServeOutcomes(p1_auth_table, p1_conn.req) :
       /\ p1_auth_table' = o.table
       /\ p1_conn' = [p1_conn EXCEPT !.received = o.received,
                                     !.sent = o.sent, !.done = FALSE]
       /\ p1_bye' = (p1_bye \/ o.bye)
       /\ p1_pc' = IF o.crashed THEN "crashed" ELSE "close"
  /\ UNCHANGED <<p1_last, p1_nops, p1_nconn>>
  /\ UNCHANGED <<p1_file, p1_tmpfile>>
  /\ UNCHANGED <<storageVars, mruVars, quotaVars, mainVars,
                 t5Vars, rgVars>>

\* accept_client: close(connSd); if (done) return.
close_client ==
  /\ p1_pc = "close"
  /\ p1_pc' = IF p1_conn.done THEN "returned" ELSE "accept"
  /\ p1_conn' = NoConn
  /\ UNCHANGED <<p1_auth_table, p1_last, p1_nops, p1_bye, p1_nconn>>
  /\ UNCHANGED <<p1_file, p1_tmpfile>>
  /\ UNCHANGED <<storageVars, mruVars, quotaVars, mainVars,
                 t5Vars, rgVars>>

\* main after accept_client: storage.shutdown(), "Server terminated".
shutdown ==
  /\ p1_pc = "returned"
  /\ p1_pc' = "terminated"
  /\ UNCHANGED <<p1_auth_table, p1_last, p1_nops, p1_conn, p1_bye, p1_nconn>>
  /\ UNCHANGED <<p1_file, p1_tmpfile>>
  /\ UNCHANGED <<storageVars, mruVars, quotaVars, mainVars,
                 t5Vars, rgVars>>

InitServer == Fresh(0)
NextServer ==
  \/ \E r \in Requests : accept_client(r)
  \/ accept_client_error
  \/ serve_client
  \/ close_client
  \/ shutdown
SpecServer == InitServer /\ [][NextServer]_vars

\* ------------------------------------------------------------- main
\* The arguments and the environment of a run: -h given, the key files
\* that exist, whether the private key loads (after its generation, when
\* neither file existed), whether the public key file has bytes, what
\* load() returns, and whether the port can be bound.
MainEnvs ==
  [usage : BOOLEAN, pub_exists : BOOLEAN, pri_exists : BOOLEAN,
   pri_loads : BOOLEAN, pub_size : BOOLEAN, load : BOOLEAN,
   port_free : BOOLEAN]

\* The exit status the parent sees for main's return value.
ExitStatus(rv) == rv % (2 ^ StatusBits)

MainGoes(to) ==
  /\ main_pc' = to
  /\ UNCHANGED <<main_env, main_status, main_served>>
  /\ UNCHANGED <<storageVars, mruVars, quotaVars, p1Vars,
                 t5Vars, rgVars>>

MainExits(rv) ==
  /\ main_pc' = "exited"
  /\ main_status' = ExitStatus(rv)
  /\ UNCHANGED <<main_env, main_served>>
  /\ UNCHANGED <<storageVars, mruVars, quotaVars, p1Vars,
                 t5Vars, rgVars>>

\* The process is started.
main_start(env) ==
  /\ main_pc = "none"
  /\ main_pc' = "parse_args"
  /\ main_env' = env
  /\ UNCHANGED <<main_status, main_served>>
  /\ UNCHANGED <<storageVars, mruVars, quotaVars, p1Vars,
                 t5Vars, rgVars>>

\* parse_args; if (args.usage) return 0
main_parse_args ==
  /\ main_pc = "parse_args"
  /\ IF main_env.usage THEN MainExits(0) ELSE MainGoes("init_RSA")

\* init_RSA returns nullptr when exactly one key file exists, and what
\* load_pri returns otherwise; if (pri == nullptr) return -1
main_init_RSA ==
  /\ main_pc = "init_RSA"
  /\ IF \/ main_env.pub_exists # main_env.pri_exists
        \/ ~main_env.pri_loads
     THEN MainExits(-1)
     ELSE MainGoes("load_pub")

\* load_entire_file of the public key; if (pub.size() == 0) return -1
main_load_pub ==
  /\ main_pc = "load_pub"
  /\ IF ~main_env.pub_size THEN MainExits(-1) ELSE MainGoes("load")

\* if (!storage.load()) return 0
main_load ==
  /\ main_pc = "load"
  /\ IF ~main_env.load THEN MainExits(0) ELSE MainGoes("accept")

\* create_server_socket, whose result main does not look at, the pool, and
\* accept_client: a connection is served, and the loop ends with a BYE.
main_accept(bye) ==
  /\ main_pc = "accept"
  /\ main_env.port_free
  /\ main_served < MaxServed
  /\ main_served' = main_served + 1
  /\ main_pc' = IF bye THEN "shutdown" ELSE "accept"
  /\ UNCHANGED <<main_env, main_status>>
  /\ UNCHANGED <<storageVars, mruVars, quotaVars, p1Vars,
                 t5Vars, rgVars>>

\* accept_client on the -1 of a socket that could not be bound: accept()
\* fails and accept_client returns.
main_accept_error ==
  /\ main_pc = "accept"
  /\ ~main_env.port_free
  /\ MainGoes("shutdown")

\* pool.await_shutdown(); storage.shutdown(); main runs off its end.
main_shutdown ==
  /\ main_pc = "shutdown"
  /\ MainExits(0)

InitMain == Fresh(0)
NextMain ==
  \/ \E env \in MainEnvs : main_start(env)
  \/ main_parse_args
  \/ main_init_RSA
  \/ main_load_pub
  \/ main_load
  \/ \E bye \in BOOLEAN : main_accept(bye)
  \/ main_accept_error
  \/ main_shutdown
SpecMain == InitMain /\ [][NextMain]_vars

\* ------------------------------------------------------------- the table of p5
T5Keys == {"k1", "k2", "k3"}
T5SingleOps == {"insert", "upsert", "do_with", "do_with_readonly", "remove"}
T5AllOps == {"clear", "do_all_readonly"}

\* What a call does under the lock it holds: [pairs, ret, cb], the table it
\* leaves, what it returns and the callbacks it has run, in order.
\* An insert that does not run its callback.
T5InsertSilent(table, key, val) ==
  IF Contains(table, key)
  THEN [pairs |-> table, ret |-> "false", cb |-> <<>>]
  ELSE [pairs |-> [table EXCEPT ![Index(key)] =
                     Append(@, [first |-> key, second |-> val])],
        ret |-> "true", cb |-> <<>>]

\* insert
T5Insert(table, key, val) ==
  IF Contains(table, key)
  THEN [pairs |-> table, ret |-> "false", cb |-> <<>>]
  ELSE [pairs |-> [table EXCEPT ![Index(key)] =
                     Append(@, [first |-> key, second |-> val])],
        ret |-> "true", cb |-> <<"on_success">>]

\* upsert
T5Upsert(table, key, val) ==
  LET b == Index(key)
      i == Find(table[b], key)
  IN  IF i # 0
      THEN [pairs |-> [table EXCEPT ![b][i].second = val],
            ret |-> "false", cb |-> <<"on_upd">>]
      ELSE [pairs |-> [table EXCEPT ![b] =
                         Append(@, [first |-> key, second |-> val])],
            ret |-> "true", cb |-> <<"on_ins">>]

\* do_with, f assigning val
T5DoWith(table, key, val) ==
  LET b == Index(key)
      i == Find(table[b], key)
  IN  IF i # 0
      THEN [pairs |-> [table EXCEPT ![b][i].second = val],
            ret |-> "true", cb |-> <<"f">>]
      ELSE [pairs |-> table, ret |-> "false", cb |-> <<>>]

\* do_with_readonly
T5DoWithReadonly(table, key) ==
  IF Contains(table, key)
  THEN [pairs |-> table, ret |-> "true", cb |-> <<"f">>]
  ELSE [pairs |-> table, ret |-> "false", cb |-> <<>>]

\* remove
T5Remove(table, key) ==
  LET b == Index(key)
      i == Find(table[b], key)
  IN  IF i # 0
      THEN [pairs |-> [table EXCEPT ![b] = RemoveAt(@, i)],
            ret |-> "true", cb |-> <<"on_success">>]
      ELSE [pairs |-> table, ret |-> "false", cb |-> <<>>]

T5Single(op, table, key, val) ==
  CASE op = "insert" -> T5Insert(table, key, val)
    [] op = "upsert" -> T5Upsert(table, key, val)
    [] op = "do_with" -> T5DoWith(table, key, val)
    [] op = "do_with_readonly" -> T5DoWithReadonly(table, key)
    [] OTHER -> T5Remove(table, key)

\* Locks taken from the last bucket down by do_all_readonly.
LockOrderOpposed(op, n) == IF op = "clear" THEN n ELSE NumBuckets - 1 - n

\* The bucket whose lock clear and do_all_readonly take as their n-th:
\* both go through the vector buckets from its first element.
LockOrder(op, n) == n

\* A thread calls an operation of the table.
t5_call(t, op, key, val) ==
  /\ t5_pc[t] = "idle"
  /\ t5_nops < MaxT5Ops
  /\ t5_nops' = t5_nops + 1
  /\ t5_loc' = [t5_loc EXCEPT ![t] =
                  [NoT5Loc EXCEPT !.op = op, !.key = key, !.val = val]]
  /\ t5_pc' = [t5_pc EXCEPT ![t] = IF op \in T5AllOps THEN "locking" ELSE "wait"]
  /\ UNCHANGED <<t5_pairs, t5_lock, t5_last>>
  /\ UNCHANGED <<storageVars, mruVars, quotaVars, p1Vars, mainVars, rgVars>>

\* lock_guard<mutex> g(buckets[b]->lock) of a single-key operation
t5_acquire(t) ==
  /\ t5_pc[t] = "wait"
  /\ t5_lock[Index(t5_loc[t].key)] = 0
  /\ t5_lock' = [t5_lock EXCEPT ![Index(t5_loc[t].key)] = t]
  /\ t5_pc' = [t5_pc EXCEPT ![t] = "held"]
  /\ UNCHANGED <<t5_pairs, t5_loc, t5_last, t5_nops>>
  /\ UNCHANGED <<storageVars, mruVars, quotaVars, p1Vars, mainVars, rgVars>>

\* The body of a single-key operation, callback included; the lock_guard
\* unlocks when the operation returns.
t5_body(t) ==
  /\ t5_pc[t] = "held"
  /\ LET l == t5_loc[t]
         r == T5Single(l.op, t5_pairs, l.key, l.val)
     IN  /\ t5_pairs' = r.pairs
         /\ t5_last' = [op |-> l.op, key |-> l.key, val |-> l.val,
                        ret |-> r.ret, cb |-> r.cb,
                        held |-> t5_lock[Index(l.key)] = t]
         /\ t5_lock' = [t5_lock EXCEPT ![Index(l.key)] = 0]
  /\ t5_pc' = [t5_pc EXCEPT ![t] = "idle"]
  /\ t5_loc' = [t5_loc EXCEPT ![t] = NoT5Loc]
  /\ UNCHANGED t5_nops
  /\ UNCHANGED <<storageVars, mruVars, quotaVars, p1Vars, mainVars, rgVars>>

\* clear and do_all_readonly, the first loop: the lock of the next bucket
t5_lock_next(t) ==
  /\ t5_pc[t] = "locking"
  /\ LET b == LockOrder(t5_loc[t].op, t5_loc[t].n)
     IN  /\ t5_lock[b] = 0
         /\ t5_lock' = [t5_lock EXCEPT ![b] = t]
  /\ t5_loc' = [t5_loc EXCEPT ![t].n = @ + 1]
  /\ t5_pc' = [t5_pc EXCEPT ![t] =
                 IF t5_loc[t].n + 1 = NumBuckets THEN "locked" ELSE "locking"]
  /\ UNCHANGED <<t5_pairs, t5_last, t5_nops>>
  /\ UNCHANGED <<storageVars, mruVars, quotaVars, p1Vars, mainVars, rgVars>>

\* clear and do_all_readonly, with every lock held: the pairs are cleared,
\* or f gathers the keys of every pair and `then` runs.
t5_all_body(t) ==
  /\ t5_pc[t] = "locked"
  /\ IF t5_loc[t].op = "clear"
     THEN /\ t5_pairs' = [b \in Buckets |-> <<>>]
          /\ t5_loc' = [t5_loc EXCEPT ![t].n = 0]
     ELSE /\ t5_pairs' = t5_pairs
          /\ t5_loc' = [t5_loc EXCEPT ![t].n = 0,
                          ![t].ret = NamesOf(Flatten(t5_pairs, 0)),
                          ![t].cb = [j \in 1 .. Len(Flatten(t5_pairs, 0)) |-> "f"]
                                    \o <<"then">>]
  /\ t5_pc' = [t5_pc EXCEPT ![t] = "unlocking"]
  /\ UNCHANGED <<t5_lock, t5_last, t5_nops>>
  /\ UNCHANGED <<storageVars, mruVars, quotaVars, p1Vars, mainVars, rgVars>>

\* clear and do_all_readonly, the last loop: the next bucket is unlocked,
\* and after the last one the call returns.
t5_unlock_next(t) ==
  /\ t5_pc[t] = "unlocking"
  /\ t5_lock' = [t5_lock EXCEPT ![t5_loc[t].n] = 0]
  /\ IF t5_loc[t].n + 1 = NumBuckets
     THEN /\ t5_pc' = [t5_pc EXCEPT ![t] = "idle"]
          /\ t5_loc' = [t5_loc EXCEPT ![t] = NoT5Loc]
          /\ t5_last' = [NoT5Last EXCEPT !.op = t5_loc[t].op,
                           !.ret = t5_loc[t].ret, !.cb = t5_loc[t].cb,
                           !.held = TRUE]
     ELSE /\ t5_loc' = [t5_loc EXCEPT ![t].n = @ + 1]
          /\ UNCHANGED <<t5_pc, t5_last>>
  /\ UNCHANGED <<t5_pairs, t5_nops>>
  /\ UNCHANGED <<storageVars, mruVars, quotaVars, p1Vars, mainVars, rgVars>>

\* What a thread inside a call does next.
T5Step(t) ==
  \/ t5_acquire(t)
  \/ t5_body(t)
  \/ t5_lock_next(t)
  \/ t5_all_body(t)
  \/ t5_unlock_next(t)

T5Calls(T, O, K, V) == \E t \in T, op \in O, k \in K, v \in V : t5_call(t, op, k, v)

\* Threads calling the table; a thread that can go on in its call does so
\* in the end.
InitP5 == Fresh(0)
NextP5 ==
  \/ T5Calls(Workers, T5SingleOps \cup T5AllOps, T5Keys, {"v1"})
  \/ \E t \in Workers : T5Step(t)
SpecP5 ==
  InitP5 /\ [][NextP5]_vars /\ \A t \in Workers : WF_vars(T5Step(t))

\* ------------------------------------------------------------- net.cc
\* The values of errno the function tells apart: none, EINTR, any other.
Errnos == {"0", "EINTR", "ECONNRESET"}

\* while (remain): the loop goes on, or the function returns total.
RgLoops(remain, total) ==
  IF remain # 0
  THEN /\ rg_pc' = "loop"
       /\ rg_ret' = rg_ret
  ELSE /\ rg_pc' = "returned"
       /\ rg_ret' = total

\* reliable_get_to_eof_or_n(sd, pos, amnt) is called; errno is what the
\* thread's earlier calls have left in it.
rg_call(amnt, e) ==
  /\ rg_pc = "idle"
  /\ rg_remain' = amnt
  /\ rg_total' = 0
  /\ rg_errno' = e
  /\ RgLoops(amnt, 0)
  /\ UNCHANGED <<rg_closed, rg_nrecv>>
  /\ UNCHANGED <<storageVars, mruVars, quotaVars, p1Vars, mainVars, t5Vars>>

\* recv returns rcd > 0 bytes; a call that succeeds leaves errno alone.
rg_recv_bytes(rcd) ==
  /\ rg_pc = "loop" /\ ~rg_closed
  /\ rg_nrecv < MaxRecvs
  /\ rcd <= rg_remain
  /\ rg_nrecv' = rg_nrecv + 1
  /\ rg_remain' = rg_remain - rcd
  /\ rg_total' = rg_total + rcd
  /\ RgLoops(rg_remain - rcd, rg_total + rcd)
  /\ UNCHANGED <<rg_errno, rg_closed>>
  /\ UNCHANGED <<storageVars, mruVars, quotaVars, p1Vars, mainVars, t5Vars>>

\* recv returns -1 and sets errno: with EINTR the loop goes on, with any
\* other error the function returns -1.
rg_recv_fails(e) ==
  /\ rg_pc = "loop" /\ ~rg_closed
  /\ rg_nrecv < MaxRecvs
  /\ e # "0"
  /\ rg_nrecv' = rg_nrecv + 1
  /\ rg_errno' = e
  /\ IF e = "EINTR"
     THEN UNCHANGED <<rg_pc, rg_ret>>
     ELSE rg_pc' = "returned" /\ rg_ret' = 0 - 1
  /\ UNCHANGED <<rg_remain, rg_total, rg_closed>>
  /\ UNCHANGED <<storageVars, mruVars, quotaVars, p1Vars, mainVars, t5Vars>>

\* recv returns 0, the peer has closed the socket; errno is not set.  The
\* function returns total unless errno is EINTR, in which case the loop
\* goes on, and so does every later recv, which returns 0 again.
rg_recv_eof ==
  /\ rg_pc = "loop"
  /\ rg_nrecv < MaxRecvs
  /\ rg_nrecv' = rg_nrecv + 1
  /\ rg_closed' = TRUE
  /\ IF rg_errno # "EINTR"
     THEN rg_pc' = "returned" /\ rg_ret' = rg_total
     ELSE UNCHANGED <<rg_pc, rg_ret>>
  /\ UNCHANGED <<rg_remain, rg_total, rg_errno>>
  /\ UNCHANGED <<storageVars, mruVars, quotaVars, p1Vars, mainVars, t5Vars>>

\* The caller goes on to its next read.
rg_done ==
  /\ rg_pc = "returned"
  /\ rg_nrecv < MaxRecvs
  /\ rg_pc' = "idle"
  /\ rg_closed' = FALSE
  /\ UNCHANGED <<rg_remain, rg_total, rg_errno, rg_ret, rg_nrecv>>
  /\ UNCHANGED <<storageVars, mruVars, quotaVars, p1Vars, mainVars, t5Vars>>

InitNet == Fresh(0)
NextNet ==
  \/ \E amnt \in 0 .. MaxAmnt, e \in Errnos : rg_call(amnt, e)
  \/ \E rcd \in 1 .. MaxAmnt : rg_recv_bytes(rcd)
  \/ \E e \in Errnos : rg_recv_fails(e)
  \/ rg_recv_eof
  \/ rg_done
SpecNet == InitNet /\ [][NextNet]_vars

\* insert and remove of both tables: kv_insert and kv_delete on the store
\* of p3, insert and remove on the table of p5.
InitInsert == Preloaded(MaxInsOps)
NextInsert ==
  \/ \E w \in Workers, k \in Keys, v \in Values : kv_insert(w, "alice", k, v)
  \/ \E w \in Workers, k \in Keys : kv_delete_scan(w, "alice", k)
  \/ \E w \in Workers : kv_delete_apply(w)
  \/ T5Calls(Workers, {"insert", "remove"}, Keys, {"v1"})
  \/ \E t \in Workers : t5_acquire(t)
  \/ \E t \in Workers : t5_body(t)
SpecInsert == InitInsert /\ [][NextInsert]_vars

\* ------------------------------------------------------------- properties
\* The records of the log that concern key, in order.
KVLog(key) ==
  SelectSeq(file, LAMBDA r : r.magic \in {KVENTRY, KVUPDATE, KVDELETE}
                             /\ r.name = key)

\* The mutations of key by this process, in order.
KeyHist(key) == SelectSeq(kv_hist, LAMBDA e : e.key = key)

\* An operation that started in this step has returned in it.
ReturnsAtOnce(op) ==
  /\ nops' = nops + 1
  /\ pc' = pc
  /\ ~crashed'
  /\ last'.op = op

\* C1: under any interleaving of kv_insert, kv_upsert and kv_delete, the
\* last log record of every key in the store is a KVKVKVKV or KVUPDATE
\* carrying the key's current value, and a key not in the store has no
\* record or a KVDELETE as its last.
C1_LogMatchesStore ==
  ~crashed =>
    \A k \in Keys :
      IF Contains(kv_store, k)
      THEN /\ KVLog(k) # <<>>
           /\ KVLog(k)[Len(KVLog(k))].magic \in {KVENTRY, KVUPDATE}
           /\ KVLog(k)[Len(KVLog(k))].data = Lookup(kv_store, k)
      ELSE \/ KVLog(k) = <<>>
           \/ KVLog(k)[Len(KVLog(k))].magic = KVDELETE

\* C3: when two kv_upsert of one key have overlapped and nothing else has
\* changed the store, a kv_get of the key that follows them returns the
\* value of the kv_upsert that mutated second.
C3_SecondUpsertWins ==
  ( /\ last.op = "KVG"
    /\ last.ret # "ERR_LOGIN"
    /\ raced[last.key]
    /\ Len(kv_hist) = 2
    /\ \A j \in 1 .. 2 : kv_hist[j].op = "KVU" /\ kv_hist[j].key = last.key )
  => last.ret = kv_hist[2].val

\* C6: a kv_get of k that passes authentication returns the value written
\* by the kv_insert or kv_upsert that mutated k last, when no two operations
\* on k have overlapped and no kv_delete of k has come between.
C6_GetAfterPut ==
  ( /\ last.op = "KVG"
    /\ last.ret # "ERR_LOGIN"
    /\ ~raced[last.key]
    /\ KeyHist(last.key) # <<>>
    /\ KeyHist(last.key)[Len(KeyHist(last.key))].op \in {"KVI", "KVU"} )
  => last.ret = KeyHist(last.key)[Len(KeyHist(last.key))].val

\* C7: a kv_delete that passes authentication for a key that is not in the
\* store returns ERR_KEY at once, appends no record to the log and leaves
\* the store as it is; it goes on to erase only when it has found the key.
C7_DeleteAbsent ==
  [][ /\ (ReturnsAtOnce("KVD") /\ last'.ret # "ERR_LOGIN")
        => /\ last'.ret = "ERR_KEY"
           /\ ~Contains(kv_store, last'.key)
           /\ kv_store' = kv_store
           /\ file' = file
      /\ \A w \in Workers :
           (pc[w] = "idle" /\ pc'[w] = "remove")
             => Contains(kv_store, loc'[w].key)
    ]_vars

\* A second kv_delete of a key right after the one that removed it has
\* returned ERR_KEY.
C7_Witness ==
  /\ last.op = "KVD"
  /\ last.ret = "ERR_KEY"
  /\ kv_hist # <<>>
  /\ kv_hist[Len(kv_hist)].op = "KVD"
  /\ kv_hist[Len(kv_hist)].key = last.key
  /\ ~Contains(kv_store, last.key)


\* What the queries of a Storage holding these tables answer: the users
\* with their contents, and for each key its value (NotMapped if none).
NotMapped == "ERR_KEY"
View(users, store) ==
  [users |-> {[name |-> Flatten(users, 0)[j].first,
               content |-> Flatten(users, 0)[j].second.content] :
                j \in 1 .. Len(Flatten(users, 0))},
   kv |-> [k \in Keys |-> IF Contains(store, k) THEN Lookup(store, k)
                          ELSE NotMapped]]

\* C2: after any sequence of operations run one after the other against a
\* fresh Storage, a new Storage that loads the same data file answers with
\* the same users, contents, keys and values as the first one.
C2_ReloadObservesSame ==
  (running /\ ~crashed /\ \A w \in Workers : pc[w] = "idle")
  => /\ ~Loaded(file).hung
     /\ View(Loaded(file).auth, Loaded(file).kv) = View(auth_table, kv_store)

\* C4: auth of the user and the password that add_user registered returns
\* true; auth with a password whose digest differs from the stored one
\* returns false; auth of a user that was never registered returns false.
C4_AuthSound ==
  last.op = "AUTH" =>
    /\ (regpass[last.user] = last.pass) => last.ret = "true"
    /\ ( /\ Contains(auth_table, last.user)
         /\ Lookup(auth_table, last.user).pass_hash # last.hash )
       => last.ret = "false"
    /\ (regpass[last.user] = "") => last.ret = "false"

\* C5: add_user of a user that is registered already returns false and
\* leaves the auth table (that user's pass_hash and content, every other
\* user) and the log as they were.
C5_SecondRegChangesNothing ==
  [][ (ReturnsAtOnce("REG") /\ Contains(auth_table, last'.user))
        => /\ last'.ret = "false"
           /\ auth_table' = auth_table
           /\ file' = file
    ]_vars

\* A second add_user of a registered user, with another password, has
\* returned false.
C5_Witness ==
  /\ last.op = "REG"
  /\ last.ret = "false"
  /\ regpass[last.user] # ""
  /\ regpass[last.user] # last.pass

\* A worker is inside persist().
InPersist(w) == pc[w] \in {"persist_scan", "persist_write", "persist_rename"}

\* C8: no step of persist() changes the auth table or the store, and a
\* kv_get that passes authentication while a persist() is running, for a
\* key that is in the store, returns the key's value and never ERR_KEY.
C8_PersistLeavesMemory ==
  [][ /\ (\E w \in Workers :
            pc'[w] # pc[w] /\ (InPersist(w) \/ pc'[w] = "persist_scan"))
        => (auth_table' = auth_table /\ kv_store' = kv_store)
      /\ ( /\ ReturnsAtOnce("KVG")
           /\ last'.ret # "ERR_LOGIN"
           /\ \E w \in Workers : InPersist(w)
           /\ Contains(kv_store, last'.key) )
        => (last'.ret \in Values /\ last'.ret = Lookup(kv_store, last'.key))
    ]_vars

\* A kv_get has returned a value while another worker was inside persist().
C8_Witness ==
  /\ last.op = "KVG"
  /\ last.ret \in Values
  /\ \E w \in Workers : InPersist(w)

\* C9: a value that a kv_get returns for a key is in the data file
\* already, as a KVKVKVKV or KVUPDATE record of that key.
C9_ObservedIsLogged ==
  (last.op = "KVG" /\ last.ret \in Values)
  => \E j \in 1 .. Len(file) :
       /\ file[j].magic \in {KVENTRY, KVUPDATE}
       /\ file[j].name = last.key
       /\ file[j].data = last.ret

\* C10: when a persist() returns, loading the data file gives the auth
\* table and the store as they were when that persist() read them, and
\* the data file only ever changes to a whole snapshot.
C10_SnapshotLoads ==
  [][ \A w \in Workers :
        (pc[w] = "persist_rename" /\ pc'[w] = "idle")
          => /\ Loaded(file').auth = loc[w].snap[1]
             /\ Loaded(file').kv = loc[w].snap[2]
    ]_vars


\* The elements of the insert() calls in hist, most recent first, each
\* once, at most k of them.
RECURSIVE RecentDistinct(_, _, _)
RecentDistinct(hist, seen, k) ==
  IF hist = <<>> \/ k = 0 THEN <<>>
  ELSE LET e == hist[Len(hist)].elt
           rest == SubSeq(hist, 1, Len(hist) - 1)
       IN  IF e \in seen THEN RecentDistinct(rest, seen, k)
           ELSE <<e>> \o RecentDistinct(rest, seen \cup {e}, k - 1)

\* The elements with a newline between each two.
RECURSIVE JoinLines(_)
JoinLines(elts) ==
  IF Len(elts) <= 1 THEN elts
  ELSE <<Head(elts), "\n">> \o JoinLines(Tail(elts))

\* C11: after a sequence of insert() calls on a manager of capacity
\* MruCapacity, get() returns the last MruCapacity distinct elements
\* inserted, most recent first, with a newline between each two.
C11_GetIsRecentFirst ==
  ( /\ mru_last.op = "get"
    /\ mru_last.quiet
    /\ \A j \in 1 .. Len(mru_last.hist) : mru_last.hist[j].op = "insert" )
  => mru_last.rv = JoinLines(RecentDistinct(mru_last.hist, {}, MruCapacity))

\* C12: the manager never holds more than MruCapacity elements.
C12_AtMostCapacity == Len(mru) <= MruCapacity

\* C13: as long as every add(a) has followed, in one step, a check(a) that
\* returned true, the amounts added in the last QuotaDur seconds sum to at
\* most QuotaMax.
C13_WindowWithinQuota ==
  q_paired =>
    SumAmounts(SelectSeq(q_added, LAMBDA e : e.when > q_now - QuotaDur))
      <= QuotaMax

\* C14: check(amount) returns true exactly when the amounts added less
\* than QuotaDur seconds ago, plus amount, are at most QuotaMax; on a
\* tracker just constructed that sum is 0.
C14_CheckIsWindowSum ==
  q_last.op = "check"
    => (q_last.ret <=> (q_last.winsum + q_last.amount <= QuotaMax))

\* C15: once a check() has returned false, a check(a) with a <= QuotaMax
\* made when no add() is less than QuotaDur seconds old returns true
\* (shown here for a tracker whose q_amt happened to start at 0).
C15_ServedAgain ==
  ( /\ q_last.op = "check"
    /\ q_last.first = 0
    /\ q_last.rejected
    /\ q_last.amount <= QuotaMax
    /\ q_last.winsum = 0 )
  => q_last.ret

\* C16: a get_user_data(user, pass, who) that passes authentication
\* returns ERR_NO_USER when who is not registered, ERR_NO_DATA when the
\* content of who is empty, and the content of who otherwise.
C16_GetReturnsContentOfWho ==
  (last.op = "GET" /\ last.ret # "ERR_LOGIN")
  => last.ret = IF ~Contains(auth_table, last.key) THEN "ERR_NO_USER"
                ELSE IF Lookup(auth_table, last.key).content = ""
                THEN "ERR_NO_DATA"
                ELSE Lookup(auth_table, last.key).content

\* C17: an authenticated Storage operation called with a username that is
\* not registered, or with credentials for which auth fails, returns
\* ERR_LOGIN and leaves the table as it was.
C17_LoginErrors ==
  (/\ p1_last.op \in {"SET", "GET", "ALL"}
   /\ \/ ~p1_exists(p1_last.before, p1_last.user)
      \/ ~p1_auth(p1_last.before, p1_last.user, p1_last.pass))
  => (p1_last.ret = "ERR_LOGIN" /\ p1_auth_table = p1_last.before)

\* C18: while the server runs, a registered user stays in the auth table
\* with the same username and pass_hash, and the user's content changes
\* only in a set_user_data issued as that user.
C18_EntriesStay ==
  [][(running /\ running') =>
       \A u \in Users :
         Contains(auth_table, u) =>
           /\ Contains(auth_table', u)
           /\ Lookup(auth_table', u).username = Lookup(auth_table, u).username
           /\ Lookup(auth_table', u).pass_hash = Lookup(auth_table, u).pass_hash
           /\ Lookup(auth_table', u).content # Lookup(auth_table, u).content
                => (nops' = nops + 1 /\ last'.op = "SET" /\ last'.user = u)]_vars

C18_Witness ==
  /\ running
  /\ last.op = "SET" /\ last.ret = "OK" /\ last.val = "hello"
  /\ Contains(auth_table, last.user)
  /\ Lookup(auth_table, last.user).content = "hello"
  /\ \E v \in Users \ {last.user} :
       Contains(auth_table, v) /\ Lookup(auth_table, v).content = ""

\* C19: once a BYE of a registered user with its password has been served,
\* serve_client has returned true and the server accepts no connection
\* any more: it is closing that connection, has left accept_client, or has
\* terminated.
C19_ByeStopsServer ==
  p1_bye => /\ p1_pc \in {"close", "returned", "terminated"}
            /\ p1_pc = "close" => p1_conn.done

\* C20: when serve_client has returned and the connection is about to be
\* closed, a request that arrived, whose RSA and AES blocks decrypted and
\* whose command is REG, BYE, SET, GET, ALL or SAV has been sent exactly
\* one reply, encrypted with the request's AES key.
C20_OneReply ==
  (/\ p1_pc = "close"
   /\ p1_conn.received
   /\ p1_conn.req.kind = "CMD"
   /\ p1_conn.req.rsa_ok /\ p1_conn.req.aes_ok
   /\ p1_conn.req.cmd \in Cmds)
  => (Len(p1_conn.sent) = 1 /\ p1_conn.sent[1].key = p1_conn.req.key)

\* The number of pairs of key in its bucket.
RECURSIVE CountIn(_, _)
CountIn(elements, key) ==
  IF elements = <<>> THEN 0
  ELSE (IF Head(elements).first = key THEN 1 ELSE 0) + CountIn(Tail(elements), key)

Pairs(table, key) == CountIn(table[Index(key)], key)

\* C28: under any interleaving of insert, upsert and remove, each bucket of
\* the table holds at most one pair per key.
C28_KeysUnique ==
  \A k \in Keys : Pairs(kv_store, k) <= 1

\* C29: an upsert that returns has run the callback that matches the table
\* at the moment of its mutation: OKINS and a KVKVKVKV record when the key
\* had no pair, OKUPD and a KVUPDATE record when it had one, and the key is
\* then mapped to the value.
C29_UpsertCallbackMatches ==
  [][\A w \in Workers :
       (pc[w] = "upsert" /\ pc'[w] = "idle" /\ ~crashed')
       => /\ last'.ret = (IF Pairs(kv_store, loc[w].key) = 0
                          THEN "OKINS" ELSE "OKUPD")
          /\ Lookup(kv_store', loc[w].key) = loc[w].val]_vars

\* C30: a remove of k that returns true has erased one pair of k and has
\* left the pairs of every other key as they were.
C30_RemoveErasesOwnPair ==
  [][\A w \in Workers :
       (pc[w] = "remove" /\ pc'[w] = "idle" /\ ~crashed')
       => /\ Pairs(kv_store', loc[w].key) = Pairs(kv_store, loc[w].key) - 1
          /\ \A k \in Keys \ {loc[w].key} :
               /\ Pairs(kv_store', k) = Pairs(kv_store, k)
               /\ Lookup(kv_store', k) = Lookup(kv_store, k)]_vars

\* serve_client has returned for a request whose blocks both arrived.
Served == p1_pc = "serve" /\ p1_pc' = "close" /\ p1_conn'.received

\* C21: a request whose envelope and body decrypt and whose mnemonic is
\* not in the dispatch table is sent the reply ERR_INV_CMD, and the auth
\* table is left as it was.
C21_UnknownMnemonic ==
  [][(/\ Served
      /\ p1_conn.req.kind = "CMD"
      /\ p1_conn.req.rsa_ok /\ p1_conn.req.aes_ok
      /\ p1_conn.req.cmd \notin Cmds)
     => /\ p1_conn'.sent = <<Encrypted(p1_conn.req.key, "ERR_INV_CMD")>>
        /\ p1_auth_table' = p1_auth_table]_vars

\* C22: when the RSA decryption of the envelope fails, serve_client
\* returns having read no body, sent no reply and changed no storage state.
C22_RsaFailureDrops ==
  [][(/\ p1_pc = "serve"
      /\ p1_conn.req.kind = "CMD"
      /\ ~p1_conn.req.rsa_ok
      /\ p1_pc' # "serve")
     => /\ p1_pc' = "close"
        /\ p1_conn'.sent = <<>>
        /\ p1_auth_table' = p1_auth_table]_vars

\* C23: when the envelope decrypts and the AES decryption of the body
\* fails, serve_client sends ERR_CRYPTO encrypted with the request's key,
\* and nothing else, and the auth table is left as it was.
C23_AesFailureReplies ==
  [][(/\ Served
      /\ p1_conn.req.kind = "CMD"
      /\ p1_conn.req.rsa_ok /\ ~p1_conn.req.aes_ok)
     => /\ p1_conn'.sent = <<[key |-> p1_conn.req.key, text |-> "ERR_CRYPTO"]>>
        /\ p1_auth_table' = p1_auth_table]_vars

C23_Witness ==
  /\ p1_pc = "close"
  /\ p1_conn.received
  /\ p1_conn.req.kind = "CMD"
  /\ p1_conn.req.rsa_ok /\ ~p1_conn.req.aes_ok
  /\ p1_conn.req.cmd = "REG"
  /\ ~p1_exists(p1_auth_table, p1_conn.req.user)
  /\ Len(p1_conn.sent) = 1
  /\ p1_conn.sent[1].text = "ERR_CRYPTO"

\* C24: a REG or GET whose user, password or who field is empty is sent
\* the reply ERR_MSG_FMT, and the auth table is left as it was.
C24_EmptyFieldIsFormatError ==
  [][(/\ Served
      /\ p1_conn.req.kind = "CMD"
      /\ p1_conn.req.rsa_ok /\ p1_conn.req.aes_ok
      /\ \/ p1_conn.req.cmd = "REG" /\ p1_conn.req.user = ""
         \/ p1_conn.req.cmd = "GET"
            /\ (p1_conn.req.user = "" \/ p1_conn.req.arg = ""))
     => /\ p1_conn'.sent = <<Encrypted(p1_conn.req.key, "ERR_MSG_FMT")>>
        /\ p1_auth_table' = p1_auth_table]_vars

KnownMagics == {AUTHENTRY, AUTHDIFF, KVENTRY, KVUPDATE, KVDELETE}

\* What the records of a log mean, applied in order to the maps
\* user -> content ("?" for no such user) and key -> value ("" for no key).
RECURSIVE Meaning(_, _)
Meaning(m, records) ==
  IF records = <<>> THEN m
  ELSE LET r == Head(records)
           n == CASE r.magic = AUTHENTRY /\ m.auth[r.name] = "?" ->
                       [m EXCEPT !.auth[r.name] = r.data]
                  [] r.magic = AUTHDIFF /\ m.auth[r.name] # "?" ->
                       [m EXCEPT !.auth[r.name] = r.data]
                  [] r.magic = KVENTRY /\ m.kv[r.name] = "" ->
                       [m EXCEPT !.kv[r.name] = r.data]
                  [] r.magic = KVUPDATE -> [m EXCEPT !.kv[r.name] = r.data]
                  [] r.magic = KVDELETE -> [m EXCEPT !.kv[r.name] = ""]
                  [] OTHER -> m
       IN  Meaning(n, Tail(records))

MeaningOf(records) ==
  Meaning([auth |-> [u \in Users |-> "?"], kv |-> [k \in Keys |-> ""]], records)

\* C25: load() of a data file returns false when the file holds a magic
\* that is none of the five, and otherwise returns true with every record
\* applied in file order.
C25_LoadAppliesLog ==
  (last.op = "LOAD" /\ file # <<>>)
  => IF \E i \in 1 .. Len(file) : file[i].magic \notin KnownMagics
     THEN last.ret = "false"
     ELSE /\ last.ret = "true"
          /\ \A k \in Keys : Lookup(kv_store, k) = MeaningOf(file).kv[k]
          /\ \A u \in Users :
               IF MeaningOf(file).auth[u] = "?" THEN ~Contains(auth_table, u)
               ELSE /\ Contains(auth_table, u)
                    /\ Lookup(auth_table, u).content = MeaningOf(file).auth[u]

\* main gets as far as binding the port.
ReachesSocket ==
  /\ ~main_env.usage
  /\ main_env.pub_exists = main_env.pri_exists
  /\ main_env.pri_loads /\ main_env.pub_size /\ main_env.load

\* C26: main exits with a nonzero status, having served no connection,
\* when exactly one of the key files exists or when the port it gets to
\* bind is in use, and exits with status 0 only after help or after a BYE
\* ended the accept loop of a server that was listening.
C26_ExitStatus ==
  main_pc = "exited"
  => /\ (\/ ~main_env.usage /\ main_env.pub_exists # main_env.pri_exists
         \/ ReachesSocket /\ ~main_env.port_free)
        => (main_status # 0 /\ main_served = 0)
     /\ main_status = 0
        => \/ main_env.usage
           \/ ReachesSocket /\ main_env.port_free /\ main_served > 0

\* The entries of a file of p1 as a table.
P1TableOf(f) == [u \in {f[i].username : i \in 1 .. Len(f)} |->
                   (CHOOSE e \in {f[i] : i \in 1 .. Len(f)} : e.username = u)]

\* C27: after persist() the data file holds the whole auth table, and a
\* load() of that file returns true and leaves exactly the persisted users
\* in the table.
C27_PersistThenLoad ==
  /\ p1_last.op = "SAV"
     => (p1_file # P1NoFile /\ P1TableOf(p1_file) = p1_auth_table)
  /\ (p1_last.op = "LOAD" /\ p1_file # P1NoFile)
     => (p1_last.ret = "true" /\ p1_auth_table = P1TableOf(p1_file))
\* The value do_with(key, f) ought to change: that of the pair of key.
WithValue(table, key, val) ==
  LET b == Index(key)
      i == Find(table[b], key)
  IN  IF i = 0 THEN table ELSE [table EXCEPT ![b][i].second = val]

\* C31: a do_with(k, f) that returns true has run f while k was mapped, on
\* the value mapped from k and on nothing else, whatever insert, upsert and
\* remove did to the bucket in the meantime.
C31_DoWithOwnValue ==
  [][\A w \in Workers :
       (pc[w] = "do_with" /\ pc'[w] = "idle" /\ ~crashed')
       => /\ Contains(kv_store, loc[w].key)
          /\ kv_store' = WithValue(kv_store, loc[w].key, loc[w].val)]_vars

\* C32: when no operation of the table is running, no bucket lock is held:
\* every operation that has returned has given back the locks it took.
C32_LocksReleased ==
  (\A w \in Workers : pc[w] = "idle") => \A b \in Buckets : ~kv_rdlocked[b]

\* The pairs of the buckets below n, in bucket order.
RECURSIVE Scanned(_, _, _)
Scanned(table, b, n) ==
  IF b >= n THEN <<>> ELSE table[b] \o Scanned(table, b + 1, n)

C35_ThenRunsLast ==
  \A w \in Workers :
    pc[w] = "persist_write"
    => loc[w].data = AuthRecords(loc[w].snap[1]) \o KVRecords(loc[w].snap[2])

\* C37: when load() has returned true, the stream of the log is open for
\* writing at the end of the data file.
C37_LoadLeavesLogOpen ==
  (last.op = "LOAD" /\ last.ret = "true") => f_ptr \in {"w", "a+"}

\* C38: the deque of the mru_manager never holds a key twice.
C38_NoDuplicates ==
  \A i, j \in 1 .. Len(mru) : i # j => mru[i] # mru[j]

\* C33: clear and do_all_readonly take the bucket locks in index order, and
\* every operation a thread has started on the p5 table completes, whatever
\* the other threads are doing: there is no deadlock.
C33_OperationsComplete ==
  /\ [](\A t \in Workers :
         t5_pc[t] = "locking"
         => \A b \in Buckets : (t5_lock[b] = t) <=> (b < t5_loc[t].n))
  /\ \A t \in Workers : (t5_pc[t] # "idle") ~> (t5_pc[t] = "idle")

\* A clear and a do_all_readonly are taking their locks at the same time:
\* one holds the first bucket and the other waits for it.
C33_Witness ==
  \E t, u \in Workers :
    /\ t5_pc[t] = "locking" /\ t5_loc[t].op = "clear" /\ t5_loc[t].n = 1
    /\ t5_pc[u] = "locking" /\ t5_loc[u].op = "do_all_readonly"
    /\ t5_loc[u].n = 0

\* C36: an insert that returns has, under the bucket's lock, either found k
\* mapped, left the table as it was, run no callback and returned false, or
\* appended (k, v) to k's bucket, run on_success once and returned true.
\* In p5 the callbacks run are recorded; in p3 the callback of kv_insert
\* appends the KVKVKVKV record of the pair to the log.
C36_InsertContract ==
  [][/\ \A t \in Workers :
          (t5_pc[t] = "held" /\ t5_pc'[t] = "idle" /\ t5_loc[t].op = "insert")
          => /\ t5_lock[Index(t5_loc[t].key)] = t
             /\ IF Contains(t5_pairs, t5_loc[t].key)
                THEN /\ t5_last'.ret = "false"
                     /\ t5_pairs' = t5_pairs
                     /\ t5_last'.cb = <<>>
                ELSE /\ t5_last'.ret = "true"
                     /\ t5_pairs' = [t5_pairs EXCEPT ![Index(t5_loc[t].key)] =
                                       Append(@, [first |-> t5_loc[t].key,
                                                  second |-> t5_loc[t].val])]
                     /\ t5_last'.cb = <<"on_success">>
     /\ (nops' = nops + 1 /\ pc' = pc /\ last'.op = "KVI"
         /\ last'.ret # "ERR_LOGIN")
        => IF Contains(kv_store, last'.key)
           THEN /\ last'.ret = "ERR_KEY"
                /\ kv_store' = kv_store
                /\ file' = file
           ELSE /\ last'.ret = "OK"
                /\ kv_store' = [kv_store EXCEPT ![Index(last'.key)] =
                                  Append(@, [first |-> last'.key,
                                             second |-> last'.val])]
                /\ file' = Append(file, Rec(KVENTRY, last'.key, <<>>, last'.val))
    ]_vars

\* An insert of p5 has appended its pair and run on_success, and a
\* kv_insert of p3 has found its key mapped.
C36_Witness ==
  /\ t5_last.op = "insert" /\ t5_last.ret = "true" /\ t5_last.held
  /\ t5_last.cb = <<"on_success">>
  /\ Contains(t5_pairs, t5_last.key)
  /\ last.op = "KVI" /\ last.ret = "ERR_KEY"

\* C39: once a recv of the call has returned 0, reliable_get_to_eof_or_n
\* has returned the bytes read so far, also when errno holds EINTR from an
\* interrupted recv; and it returns -1 only after a recv that failed with
\* an error other than EINTR.
C39_ReturnsAtEof ==
  /\ rg_closed => (rg_pc = "returned" /\ rg_ret = rg_total)
  /\ (rg_pc = "returned" /\ rg_ret = 0 - 1) => rg_errno = "ECONNRESET"

=============================================================================
